---- MODULE Spec2Model ----
(***************************************************************************)
(* A model of the symbol resolution and output layout passes of the mold   *)
(* linker (src/elf/passes.cc).  Every pass is a state machine of its own   *)
(* over the variables below; the passes that a specification does not run  *)
(* keep their variables at the idle value <<>>.                            *)
(*                                                                         *)
(*   SpecResolve  resolve_symbols        (passes.cc 78-175)                *)
(*   SpecComdat   eliminate_comdats      (passes.cc 177-188)               *)
(*   SpecSizes    compute_section_sizes  (passes.cc 505-543)               *)
(*   SpecRank     get_section_rank       (passes.cc 846-872)               *)
(*   SpecLayout   set_osec_offsets       (passes.cc 887-945)               *)
(***************************************************************************)
EXTENDS Integers, Sequences, FiniteSets, TLC

VARIABLES
  pc,                  \* position of the running pass
  elf_syms,            \* file -> name -> kind of the file's ELF symbol for the name
  arg_undefined,       \* ctx.arg.undefined
  arg_require_defined, \* ctx.arg.require_defined
  objs,                \* ctx.objs
  dsos,                \* ctx.dsos
  is_alive,            \* file -> InputFile::is_alive
  sym,                 \* name -> Symbol (file, tier of the installed definition, is_weak)
  todo,                \* per-symbol installs of the running parallel_for_each not yet done
  feed,                \* file -> number of items of the file in the feeder worklist
  comdat_groups,       \* file -> the keys of ObjectFile::comdat_groups
  owner,               \* key -> ComdatGroup::owner
  group_alive,         \* file -> key -> is_alive of the sections of the file's group
  elect,               \* resolve_comdat_groups steps not yet run
  kill,                \* eliminate_duplicate_comdat_groups steps not yet run
  members,             \* OutputSection::members: (sh_size, sh_addralign) of each
  isec_offset,         \* InputSection::offset of each member
  ranges,              \* the sub-ranges the scan has split the members into
  pre_sum,             \* sub-range -> its pre-scan summary, when it was pre-scanned
  scanned,             \* the sub-ranges that had their final scan
  carry,               \* the sum handed to the next sub-range's final scan
  osec_shdr,           \* sh_size and sh_addralign of the output section
  chunks,              \* ctx.chunks, with sh_addr and sh_offset
  image_base,          \* ctx.arg.image_base
  filesize,            \* the value set_osec_offsets returns
  idx,                 \* i of the running loop of set_osec_offsets
  cursor,              \* addr, then fileoff, of the running loop
  ranked,              \* the two chunks whose ranks are compared
  rank,                \* their get_section_rank
  dyn_in,              \* the command line and the input files of the dynamic passes
  dsyms,               \* name -> Symbol, for the dynamic passes
  tables,              \* the symbols of .dynsym, .got, .plt, .plt.got, .dynbss
  agg,                 \* scan_rels: the aggregated syms that are still to be visited
  errors,              \* the errors reported since the last checkpoint
  output_sections,     \* sort_init_fini: name -> OutputSection::members
  synthetic,           \* fix_synthetic_symbols: name -> Symbol
  arg_entry,           \* ctx.arg.entry
  sections,            \* bin_sections: file -> ObjectFile::sections
  groups,              \* bin_sections: slice -> output section -> input sections
  ctx                  \* the fields of the Context that the later passes read

resolve_vars == <<elf_syms, arg_undefined, arg_require_defined, objs, dsos,
                  is_alive, sym, todo, feed>>

comdat_vars == <<comdat_groups, owner, group_alive, elect, kill>>

size_vars == <<members, isec_offset, ranges, pre_sum, scanned, carry, osec_shdr>>

layout_vars == <<chunks, image_base, filesize, idx, cursor>>

rank_vars == <<ranked, rank>>

dyn_vars == <<dyn_in, dsyms, tables, agg>>

bin_vars == <<sections, groups>>

more_vars == <<errors, output_sections, synthetic, arg_entry, bin_vars, ctx>>

vars == <<pc, resolve_vars, comdat_vars, size_vars, layout_vars, rank_vars,
          dyn_vars, more_vars>>

not_resolve == <<comdat_vars, size_vars, layout_vars, rank_vars,
                 dyn_vars, more_vars>>
not_comdat == <<resolve_vars, size_vars, layout_vars, rank_vars,
                dyn_vars, more_vars>>
not_sizes == <<resolve_vars, comdat_vars, layout_vars, rank_vars,
               dyn_vars, more_vars>>
not_layout == <<resolve_vars, comdat_vars, size_vars, rank_vars,
                dyn_vars, more_vars>>
not_rank == <<resolve_vars, comdat_vars, size_vars, layout_vars,
              dyn_vars, more_vars>>

IdleResolve ==
  /\ elf_syms = <<>> /\ arg_undefined = <<>> /\ arg_require_defined = <<>>
  /\ objs = <<>> /\ dsos = <<>> /\ is_alive = <<>> /\ sym = <<>>
  /\ todo = <<>> /\ feed = <<>>

IdleComdat ==
  /\ comdat_groups = <<>> /\ owner = <<>> /\ group_alive = <<>>
  /\ elect = <<>> /\ kill = <<>>

IdleSizes ==
  /\ members = <<>> /\ isec_offset = <<>> /\ ranges = <<>> /\ pre_sum = <<>>
  /\ scanned = <<>> /\ carry = <<>> /\ osec_shdr = <<>>

IdleLayout ==
  /\ chunks = <<>> /\ image_base = <<>> /\ filesize = <<>>
  /\ idx = <<>> /\ cursor = <<>>

IdleRank ==
  /\ ranked = <<>> /\ rank = <<>>

IdleDynamic ==
  /\ dyn_in = <<>> /\ dsyms = <<>> /\ tables = <<>> /\ agg = <<>>

IdleBin ==
  /\ sections = <<>> /\ groups = <<>>

IdleCtx ==
  ctx = <<>>

IdleMore ==
  /\ errors = <<>> /\ output_sections = <<>> /\ synthetic = <<>>
  /\ arg_entry = <<>>
  /\ IdleBin /\ IdleCtx

(***************************************************************************)
(* resolve_symbols: the input files                                        *)
(***************************************************************************)

\* Number of shared objects on the command line.
NumDsos == 3

\* Symbol names; one per shared object, so that DSOs can reference in chains.
NameOf == <<"f", "g", "h", "k", "m">>
Names == {NameOf[i] : i \in 1..NumDsos}

\* Files are numbered in command line order: two regular objects, two
\* archive members, then the shared objects.
RegularObjs == {1, 2}
ArchiveMembers == {3, 4}
Dsos == {4 + i : i \in 1..NumDsos}
ObjFiles == RegularObjs \cup ArchiveMembers
Files == ObjFiles \cup Dsos

\* create_internal_file takes priority 1; input files follow in order.
priority(f) == f + 1

is_in_lib(f) == f \in ArchiveMembers
is_dso(f) == f \in Dsos

\* Kinds of an ELF symbol table entry of a file for a name.
EsymKinds == {"none", "def", "weak", "common", "undef", "undef_weak"}

is_defined(k) == k \in {"def", "weak", "common"}
is_undef(k) == k \in {"undef", "undef_weak"}
is_undef_strong(k) == k = "undef"

NoSyms == [n \in Names |-> "none"]
One(n, k) == [m \in Names |-> IF m = n THEN k ELSE "none"]
Two(n1, k1, n2, k2) ==
  [m \in Names |-> IF m = n1 THEN k1 ELSE IF m = n2 THEN k2 ELSE "none"]

RefChoices == {NoSyms} \cup {One(n, k) : n \in Names, k \in {"undef", "undef_weak"}}

\* Inputs in which several files compete for the name f.
TierInputs ==
  { [elf |-> [x \in Files |->
                IF x \in 1..6 THEN One("f", <<k1, k2, k3, k4, k5, k6>>[x])
                ELSE NoSyms],
     alive0 |-> {}, undefined |-> <<>>, require_defined |-> <<>>,
     entry |-> "_start"] :
    k1 \in {"none", "def", "weak", "common", "undef"},
    k2 \in {"none", "def", "weak", "common", "undef"},
    k3 \in {"none", "def"}, k4 \in {"none", "def"},
    k5 \in {"none", "def"}, k6 \in {"none", "def"} }

\* ctx.arg.entry: _start, which no file of the model defines, or a name
\* given by --entry.
EntryChoices == {"_start", "f", "g"}

RootChoices ==
  { <<<<>>, <<>>>>, <<<<"f">>, <<>>>>, <<<<"g">>, <<>>>>, <<<<"h">>, <<>>>>,
    <<<<>>, <<"g">>>> }

\* Inputs about archive members: object 1 references, object 2 may define
\* h, the members define and reference, DSO 5 may define g as well.
LibInputs ==
  { [elf |-> [x \in Files |->
                CASE x = 1 -> o1
                  [] x = 2 -> o2
                  [] x = 3 -> IF r3 = "f" THEN One("f", "def")
                              ELSE Two("f", "def", r3, "undef")
                  [] x = 4 -> IF r4 = d4 THEN One(d4, "def")
                              ELSE Two(d4, "def", r4, "undef")
                  [] x = 5 -> d5
                  [] OTHER -> NoSyms],
     alive0 |-> {}, undefined |-> roots[1], require_defined |-> roots[2],
     entry |-> e] :
    o1 \in RefChoices, o2 \in {NoSyms, One("h", "def")},
    r3 \in {"f", "g", "h"}, d4 \in {"f", "g"},
    r4 \in {"f", "g", "h"}, d5 \in {NoSyms, One("g", "def")},
    roots \in RootChoices, e \in EntryChoices }

\* Inputs about shared objects: object 1 references one name; DSO number i
\* defines NameOf[i] and may reference one other name; the DSOs of alive0
\* are not under --as-needed.
DsoInputs ==
  { [elf |-> [x \in Files |->
                IF x = 1 THEN o1
                ELSE IF x \in Dsos
                     THEN IF r[x] = NameOf[x - 4] THEN One(NameOf[x - 4], "def")
                          ELSE Two(NameOf[x - 4], "def", r[x], "undef")
                     ELSE NoSyms],
     alive0 |-> a, undefined |-> <<>>, require_defined |-> <<>>,
     entry |-> "_start"] :
    o1 \in RefChoices, r \in [Dsos -> Names], a \in {{}, {5}, Dsos} }

ResolveInputs == TierInputs \cup LibInputs \cup DsoInputs

(***************************************************************************)
(* resolve_symbols: symbol installation                                    *)
(***************************************************************************)

NilSym == [file |-> 0, tier |-> 0, is_weak |-> FALSE]

\* Tiers of the resolver: strong defined > weak defined > common > lazy
\* (archive member) > DSO > undefined.
TierStrong == 5
TierWeak == 4
TierCommon == 3
TierLazy == 2
TierDso == 1

RegularTier(k) ==
  CASE k = "def" -> TierStrong
    [] k = "weak" -> TierWeak
    [] k = "common" -> TierCommon
    [] OTHER -> 0

\* The per-file task of the first parallel_for_each: archive members
\* resolve lazily, other objects regularly.
ResolveTaskAllRegular(f) == "regular"
ResolveTask(f) == IF is_in_lib(f) THEN "lazy" ELSE "regular"

\* The tier a file's task claims for its entry of kind k.
ClaimTier(mode, k) ==
  CASE mode = "regular" -> RegularTier(k)
    [] mode = "lazy" -> IF k \in {"def", "weak"} THEN TierLazy ELSE 0
    [] mode = "dso" -> IF k = "def" THEN TierDso ELSE 0
    [] mode = "common" -> IF k = "common" THEN TierCommon ELSE 0

\* A claim of tier t by file f replaces the installed definition s.
Beats(t, f, s) ==
  /\ t > 0
  /\ \/ s.file = 0
     \/ t > s.tier
     \/ t = s.tier /\ priority(f) < priority(s.file)

\* One locked install: file f claims name n under the symbol's mutex.
Install(s, f, n, mode) ==
  LET t == ClaimTier(mode, elf_syms[f][n]) IN
  IF Beats(t, f, s[n])
  THEN [s EXCEPT ![n] = [file |-> f, tier |-> t,
                         is_weak |-> (mode = "dso" \/ elf_syms[f][n] = "weak")]]
  ELSE s

\* The installs a parallel_for_each over the files fs has to run.
Installs(fs, mode) ==
  {<<f, n>> \in fs \X Names : ClaimTier(mode, elf_syms[f][n]) > 0}

SeqRange(s) == {s[i] : i \in 1..Len(s)}

RECURSIVE SetToSeq(_)
SetToSeq(S) ==
  IF S = {} THEN <<>>
  ELSE LET x == CHOOSE y \in S : \A z \in S : y <= z
       IN <<x>> \o SetToSeq(S \ {x})

\* erase(vec, pred): the elements that do not satisfy pred, in order.
Erase(s, dead) == SelectSeq(s, LAMBDA f : f \notin dead)

NoFeed == [f \in Files |-> 0]

InitResolve ==
  /\ pc = "resolve_objs"
  /\ \E in \in ResolveInputs :
       /\ elf_syms = in.elf
       /\ arg_undefined = in.undefined
       /\ arg_require_defined = in.require_defined
       /\ arg_entry = in.entry
       /\ is_alive = [f \in Files |-> f \in RegularObjs \/ f \in in.alive0]
       /\ todo = {<<f, n>> \in ObjFiles \X Names :
                    ClaimTier(ResolveTask(f), in.elf[f][n]) > 0}
  /\ objs = SetToSeq(ObjFiles)
  /\ dsos = SetToSeq(Dsos)
  /\ sym = [n \in Names |-> NilSym]
  /\ feed = NoFeed
  /\ errors = <<>> /\ output_sections = <<>> /\ synthetic = <<>>
  /\ IdleComdat /\ IdleSizes /\ IdleLayout /\ IdleRank /\ IdleDynamic
  /\ IdleBin /\ IdleCtx

\* passes.cc 83-88: one symbol of one object file is registered.
ResolveObjSymbol(f, n) ==
  /\ pc = "resolve_objs"
  /\ <<f, n>> \in todo
  /\ sym' = Install(sym, f, n, ResolveTask(f))
  /\ todo' = todo \ {<<f, n>>}
  /\ UNCHANGED <<pc, elf_syms, arg_undefined, arg_require_defined, objs, dsos,
                 is_alive, feed>>
  /\ UNCHANGED not_resolve

\* The first parallel_for_each has joined; the one over ctx.dsos starts.
JoinObjs ==
  /\ pc = "resolve_objs"
  /\ todo = {}
  /\ pc' = "resolve_dsos"
  /\ todo' = Installs(SeqRange(dsos), "dso")
  /\ UNCHANGED <<elf_syms, arg_undefined, arg_require_defined, objs, dsos,
                 is_alive, sym, feed>>
  /\ UNCHANGED not_resolve

\* passes.cc 91-93: one symbol of one shared object is registered.
ResolveDsoSymbol(f, n) ==
  /\ pc = "resolve_dsos"
  /\ <<f, n>> \in todo
  /\ sym' = Install(sym, f, n, "dso")
  /\ todo' = todo \ {<<f, n>>}
  /\ UNCHANGED <<pc, elf_syms, arg_undefined, arg_require_defined, objs, dsos,
                 is_alive, feed>>
  /\ UNCHANGED not_resolve

JoinDsos ==
  /\ pc = "resolve_dsos"
  /\ todo = {}
  /\ pc' = "load"
  /\ UNCHANGED <<resolve_vars, not_resolve>>

(***************************************************************************)
(* resolve_symbols: liveness of objects and shared objects                 *)
(***************************************************************************)

\* The body of the load lambda once the symbol's file is known: st is
\* (is_alive, live_objs).
LoadFileNoPush(st, file) ==
  [alive |-> [st.alive EXCEPT ![file] = TRUE], live |-> st.live]
LoadFile(st, file) ==
  IF ~st.alive[file] /\ ~is_dso(file)
  THEN [alive |-> [st.alive EXCEPT ![file] = TRUE], live |-> Append(st.live, file)]
  ELSE [alive |-> [st.alive EXCEPT ![file] = TRUE], live |-> st.live]

load(st, name) ==
  IF sym[name].file # 0 THEN LoadFile(st, sym[name].file) ELSE st

RECURSIVE LoadAll(_, _)
LoadAll(st, names) ==
  IF names = <<>> THEN st
  ELSE LoadAll(load(st, Head(names)), Tail(names))

\* passes.cc 95-110: live_objs is the alive part of ctx.objs, then the
\* files of the --undefined and --require-defined names are loaded.
LoadRoots ==
  /\ pc = "load"
  /\ LET st0 == [alive |-> is_alive,
                 live |-> Erase(objs, {f \in Files : ~is_alive[f]})]
         st == LoadAll(LoadAll(st0, arg_undefined), arg_require_defined)
     IN /\ is_alive' = st.alive
        /\ feed' = [f \in Files |-> IF f \in SeqRange(st.live) THEN 1 ELSE 0]
  /\ pc' = "mark_objs"
  /\ UNCHANGED <<elf_syms, arg_undefined, arg_require_defined, objs, dsos,
                 sym, todo>>
  /\ UNCHANGED not_resolve

\* The names a file references (its undefined entries).
Refs(f) == {n \in Names : is_undef(elf_syms[f][n])}

\* mark_live_objects: the object files that file f drags in now.
Dragged(f) ==
  {g \in ObjFiles : ~is_alive[g] /\ \E n \in Refs(f) : sym[n].file = g}

\* passes.cc 111-115: one item of the worklist is processed; every file it
\* makes alive is fed.
MarkLiveObjects(f) ==
  /\ pc = "mark_objs"
  /\ feed[f] > 0
  /\ is_alive' = [g \in Files |-> is_alive[g] \/ g \in Dragged(f)]
  /\ feed' = [g \in Files |->
                IF g = f THEN feed[g] - 1
                ELSE IF g \in Dragged(f) THEN feed[g] + 1 ELSE feed[g]]
  /\ UNCHANGED <<pc, elf_syms, arg_undefined, arg_require_defined, objs, dsos,
                 sym, todo>>
  /\ UNCHANGED not_resolve

JoinMarkObjs ==
  /\ pc = "mark_objs"
  /\ feed = NoFeed
  /\ pc' = "sweep_objs"
  /\ UNCHANGED <<resolve_vars, not_resolve>>

\* new (sym) Symbol(name) for every symbol whose file is one of dead.
ClearSymbolsNever(s, dead) == s
ClearSymbols(s, dead) ==
  [n \in Names |-> IF s[n].file \in dead THEN NilSym ELSE s[n]]

DeadOf(fs) == {f \in SeqRange(fs) : ~is_alive[f]}

\* passes.cc 117-126: symbols of eliminated objects are removed, then the
\* unused archive members.
RemoveDeadObjs ==
  /\ pc = "sweep_objs"
  /\ sym' = ClearSymbols(sym, DeadOf(objs))
  /\ objs' = Erase(objs, DeadOf(objs))
  /\ pc' = "live_dsos"
  /\ UNCHANGED <<elf_syms, arg_undefined, arg_require_defined, dsos, is_alive,
                 todo, feed>>
  /\ UNCHANGED not_resolve

StrongDsoRefsWeakOnly ==
  {n \in Names : /\ sym[n].file # 0
                 /\ is_dso(sym[n].file)
                 /\ \E f \in SeqRange(objs) : elf_syms[f][n] = "undef_weak"}

\* The symbols that "Mark live DSOs" touches: strong undefined entries of
\* the objects of ctx.objs that resolve to a shared object.
StrongDsoRefs ==
  {n \in Names : /\ sym[n].file # 0
                 /\ is_dso(sym[n].file)
                 /\ \E f \in SeqRange(objs) : is_undef_strong(elf_syms[f][n])}

\* passes.cc 128-143: DSOs referenced by a strong undefined become alive;
\* live_dsos is the alive part of ctx.dsos.
MarkLiveDsos ==
  /\ pc = "live_dsos"
  /\ LET alive == [g \in Files |->
                     is_alive[g] \/ \E n \in StrongDsoRefs : sym[n].file = g]
     IN /\ is_alive' = alive
        /\ feed' = [g \in Files |->
                      IF g \in SeqRange(dsos) /\ alive[g] THEN 1 ELSE 0]
  /\ sym' = [n \in Names |->
               IF n \in StrongDsoRefs THEN [sym[n] EXCEPT !.is_weak = FALSE]
               ELSE sym[n]]
  /\ pc' = "mark_dsos"
  /\ UNCHANGED <<elf_syms, arg_undefined, arg_require_defined, objs, dsos, todo>>
  /\ UNCHANGED not_resolve

\* The item handed to feeder.add when file makes symfile alive (line 151).
FedDso(file, symfile) == file

\* The shared objects that file makes alive: the files of its globals that
\* are other, not yet alive, shared objects.
Woken(file) ==
  {g \in Dsos : /\ g # file
                /\ ~is_alive[g]
                /\ \E n \in Refs(file) : sym[n].file = g}

\* passes.cc 145-152: one item of the DSO worklist is processed.
MarkDsoRefs(file) ==
  /\ pc = "mark_dsos"
  /\ feed[file] > 0
  /\ is_alive' = [g \in Files |-> is_alive[g] \/ g \in Woken(file)]
  /\ feed' = [g \in Files |->
                feed[g] - (IF g = file THEN 1 ELSE 0)
                  + Cardinality({w \in Woken(file) : FedDso(file, w) = g})]
  /\ UNCHANGED <<pc, elf_syms, arg_undefined, arg_require_defined, objs, dsos,
                 sym, todo>>
  /\ UNCHANGED not_resolve

JoinMarkDsos ==
  /\ pc = "mark_dsos"
  /\ feed = NoFeed
  /\ pc' = "sweep_dsos"
  /\ UNCHANGED <<resolve_vars, not_resolve>>

\* passes.cc 154-163: symbols of unreferenced DSOs are removed, then the
\* DSOs; the parallel_for_each over resolve_common_symbols starts.
RemoveDeadDsos ==
  /\ pc = "sweep_dsos"
  /\ sym' = ClearSymbols(sym, DeadOf(dsos))
  /\ dsos' = Erase(dsos, DeadOf(dsos))
  /\ todo' = Installs(SeqRange(objs), "common")
  /\ pc' = "resolve_commons"
  /\ UNCHANGED <<elf_syms, arg_undefined, arg_require_defined, objs, is_alive,
                 feed>>
  /\ UNCHANGED not_resolve

\* passes.cc 165-168: one common symbol of one surviving object.
ResolveCommonSymbol(f, n) ==
  /\ pc = "resolve_commons"
  /\ <<f, n>> \in todo
  /\ sym' = Install(sym, f, n, "common")
  /\ todo' = todo \ {<<f, n>>}
  /\ UNCHANGED <<pc, elf_syms, arg_undefined, arg_require_defined, objs, dsos,
                 is_alive, feed>>
  /\ UNCHANGED not_resolve

JoinCommons ==
  /\ pc = "resolve_commons"
  /\ todo = {}
  /\ pc' = "resolved"
  /\ UNCHANGED <<resolve_vars, not_resolve>>

NextResolve ==
  \/ \E f \in Files, n \in Names : ResolveObjSymbol(f, n)
  \/ JoinObjs
  \/ \E f \in Files, n \in Names : ResolveDsoSymbol(f, n)
  \/ JoinDsos
  \/ LoadRoots
  \/ \E f \in Files : MarkLiveObjects(f)
  \/ JoinMarkObjs
  \/ RemoveDeadObjs
  \/ MarkLiveDsos
  \/ \E f \in Files : MarkDsoRefs(f)
  \/ JoinMarkDsos
  \/ RemoveDeadDsos
  \/ \E f \in Files, n \in Names : ResolveCommonSymbol(f, n)
  \/ JoinCommons

SpecResolve == InitResolve /\ [][NextResolve]_vars

(***************************************************************************)
(* Properties of resolve_symbols                                           *)
(***************************************************************************)

\* The tier of file f's definition of name n, by the kind of file.
DefTier(f, n) ==
  LET k == elf_syms[f][n] IN
  IF is_dso(f) THEN (IF k = "def" THEN TierDso ELSE 0)
  ELSE IF is_in_lib(f) THEN (IF k \in {"def", "weak"} THEN TierLazy ELSE 0)
  ELSE RegularTier(k)

Definers(n) == {f \in Files : DefTier(f, n) > 0}

\* The maximum of the definitions of n under (tier, then lower priority);
\* 0 when nothing defines n.
BestDef(n) ==
  IF Definers(n) = {} THEN 0
  ELSE CHOOSE f \in Definers(n) :
         \A g \in Definers(n) \ {f} :
           \/ DefTier(f, n) > DefTier(g, n)
           \/ DefTier(f, n) = DefTier(g, n) /\ priority(f) < priority(g)

\* C1: when the per-file installs of resolve_symbols have joined, whatever
\* their interleaving, every Symbol holds the unique maximum of the
\* competing definitions of its name under (tier, then lower priority), so
\* sym.file is a function of the inputs alone.
C1_InstallOrderIndependent ==
  pc = "load" => \A n \in Names : sym[n].file = BestDef(n)

\* A name with two definitions of one tier and a third of another tier has
\* been resolved.
C1_Witness ==
  /\ pc = "load"
  /\ \E f, g, h \in Definers("f") :
       /\ f # g
       /\ DefTier(f, "f") = DefTier(g, "f")
       /\ DefTier(h, "f") < DefTier(f, "f")
       /\ sym["f"].file = f

\* C2: after resolve_symbols, every Symbol with a file points at a file
\* that is alive, is still in ctx.objs or ctx.dsos, and defines the symbol.
C2_FileAliveAndDefines ==
  pc = "resolved" =>
    \A n \in Names :
      sym[n].file # 0 =>
        /\ sym[n].file \in SeqRange(objs) \cup SeqRange(dsos)
        /\ is_alive[sym[n].file]
        /\ is_defined(elf_syms[sym[n].file][n])

\* A symbol of an eliminated archive member and a symbol of a removed DSO
\* have been reverted, and another symbol is still resolved.
C2_Witness ==
  /\ pc = "resolved"
  /\ \E a \in ArchiveMembers, n \in Names :
       ~is_alive[a] /\ BestDef(n) = a /\ sym[n].file = 0
  /\ \E d \in Dsos, n \in Names :
       ~is_alive[d] /\ BestDef(n) = d /\ sym[n].file = 0
  /\ \E n \in Names : sym[n].file # 0

\* The object files in which a name of names is resolved.
FilesOf(names) ==
  {f \in ObjFiles : \E i \in 1..Len(names) : sym[names[i]].file = f}

\* The roots of the object sweep: the objects given directly and the files
\* defining the --undefined and --require-defined names.
ObjRoots ==
  RegularObjs \cup FilesOf(arg_undefined) \cup FilesOf(arg_require_defined)

RefTargets(S) ==
  {g \in ObjFiles : \E f \in S : \E n \in Refs(f) : sym[n].file = g}

RECURSIVE Reachable(_)
Reachable(S) ==
  IF RefTargets(S) \subseteq S THEN S ELSE Reachable(S \cup RefTargets(S))

\* C3: after the object sweep the alive objects are exactly the objects
\* reachable from the roots through references to resolved symbols, and no
\* alive object references a symbol resolved in a dead object.
C3_AliveIsReachable ==
  pc = "sweep_objs" =>
    /\ {f \in ObjFiles : is_alive[f]} = Reachable(ObjRoots)
    /\ \A f \in ObjFiles : \A n \in Refs(f) :
         is_alive[f] /\ sym[n].file \in ObjFiles => is_alive[sym[n].file]

\* An archive member is alive only because of --undefined, it dragged in
\* the other member, and no object given directly references either.
C3_Witness ==
  /\ pc = "sweep_objs"
  /\ arg_undefined # <<>>
  /\ is_alive[3] /\ is_alive[4]
  /\ RefTargets(RegularObjs) = {}
  /\ Cardinality(FilesOf(arg_undefined)) = 1

\* C4: DSO liveness is closed under references between DSOs: when the DSO
\* worklist has drained, every shared object in which a symbol referenced
\* by an alive shared object is resolved is alive.
C4_DsoLivenessClosed ==
  pc = "sweep_dsos" =>
    \A d \in Dsos : \A n \in Refs(d) :
      is_alive[d] /\ sym[n].file \in Dsos => is_alive[sym[n].file]

\* C5 as claimed: a weak undefined reference of a live object to a symbol
\* resolved in a shared object makes that shared object alive.
C5_WeakRefMarksDso ==
  pc = "sweep_dsos" =>
    \A f \in SeqRange(objs) : \A n \in Names :
      elf_syms[f][n] = "undef_weak" /\ sym[n].file \in Dsos
        => is_alive[sym[n].file]

\* C5 amended: a strong undefined reference of a live object to a symbol
\* resolved in a shared object makes that shared object alive, and the
\* shared objects kept in ctx.dsos are exactly the alive ones.
C5_StrongRefMarksDso ==
  /\ pc \in {"mark_dsos", "sweep_dsos", "resolve_commons", "resolved"} =>
       \A f \in SeqRange(objs) : \A n \in Names :
         is_undef_strong(elf_syms[f][n]) /\ BestDef(n) \in Dsos
           => /\ is_alive[BestDef(n)]
              /\ sym[n].file = BestDef(n)
  /\ pc \in {"resolve_commons", "resolved"} =>
       SeqRange(dsos) = {d \in Dsos : is_alive[d]}

\* No DSO was alive at the start (DSO 5 is dead), and the DSO of a strongly
\* referenced symbol has been made alive and kept.
C5_Witness ==
  /\ pc = "resolved"
  /\ ~is_alive[5]
  /\ \E n \in Names :
       /\ is_undef_strong(elf_syms[1][n])
       /\ sym[n].file \in SeqRange(dsos)
       /\ is_alive[sym[n].file]

(***************************************************************************)
(* eliminate_comdats                                                       *)
(***************************************************************************)

\* Number of object files that carry comdat groups.
NumComdatObjs == 3

ComdatObjs == 1..NumComdatObjs
Keys == {"k1", "k2"}

\* ComdatGroup::owner before any file has claimed the group: greater than
\* every priority (the largest u32 in the program, the largest number of
\* the checker here).
NoOwner == 2147483647

Min(a, b) == IF a < b THEN a ELSE b

InitComdat ==
  /\ pc = "eliminate_comdats"
  /\ comdat_groups \in [ComdatObjs -> SUBSET Keys]
  /\ owner = [k \in Keys |-> NoOwner]
  /\ group_alive = [f \in ComdatObjs |-> [k \in Keys |-> k \in comdat_groups[f]]]
  /\ elect = {<<f, k>> \in ComdatObjs \X Keys : k \in comdat_groups[f]}
  /\ kill = {<<f, k>> \in ComdatObjs \X Keys : k \in comdat_groups[f]}
  /\ IdleResolve /\ IdleSizes /\ IdleLayout /\ IdleRank /\ IdleDynamic /\ IdleMore

\* resolve_comdat_groups, one group of one file: the owner becomes the
\* smaller of itself and the file's priority, atomically.
ResolveComdatGroup(f, k) ==
  /\ <<f, k>> \in elect
  /\ owner' = [owner EXCEPT ![k] = Min(@, priority(f))]
  /\ elect' = elect \ {<<f, k>>}
  /\ UNCHANGED <<pc, comdat_groups, group_alive, kill>>
  /\ UNCHANGED not_comdat

\* The second parallel_for_each starts when the first one has returned.
EliminationStartsAtOnce == TRUE
EliminationStarted == elect = {}

\* eliminate_duplicate_comdat_groups, one group of one file: the sections
\* of the group are killed unless the file owns the group.
EliminateDuplicateComdatGroup(f, k) ==
  /\ EliminationStarted
  /\ <<f, k>> \in kill
  /\ group_alive' = [group_alive EXCEPT ![f][k] = @ /\ owner[k] = priority(f)]
  /\ kill' = kill \ {<<f, k>>}
  /\ UNCHANGED <<pc, comdat_groups, owner, elect>>
  /\ UNCHANGED not_comdat

JoinComdats ==
  /\ pc = "eliminate_comdats"
  /\ elect = {} /\ kill = {}
  /\ pc' = "deduplicated"
  /\ UNCHANGED <<comdat_vars, not_comdat>>

NextComdat ==
  \/ \E f \in ComdatObjs, k \in Keys : ResolveComdatGroup(f, k)
  \/ \E f \in ComdatObjs, k \in Keys : EliminateDuplicateComdatGroup(f, k)
  \/ JoinComdats

SpecComdat == InitComdat /\ [][NextComdat]_vars

\* The files whose group for key k is still alive.
Keepers(k) == {f \in ComdatObjs : k \in comdat_groups[f] /\ group_alive[f][k]}

GroupDefiners(k) == {f \in ComdatObjs : k \in comdat_groups[f]}

\* C6: after eliminate_comdats, for every comdat key that some object
\* defines, exactly one object keeps its group: the one of smallest
\* priority among the objects defining the key; the sections of every other
\* object's group are dead. This holds for every interleaving of the tasks.
C6_OneGroupPerKey ==
  pc = "deduplicated" =>
    \A k \in Keys :
      GroupDefiners(k) # {} =>
        \E f \in GroupDefiners(k) :
          /\ Keepers(k) = {f}
          /\ \A g \in GroupDefiners(k) : priority(f) <= priority(g)

\* A key defined by all the objects has been deduplicated while the other
\* key is defined by the last object alone.
C6_Witness ==
  /\ pc = "deduplicated"
  /\ GroupDefiners("k1") = ComdatObjs
  /\ Keepers("k1") = {1}
  /\ GroupDefiners("k2") = {NumComdatObjs}
  /\ Keepers("k2") = {NumComdatObjs}

(***************************************************************************)
(* compute_section_sizes                                                   *)
(***************************************************************************)

\* Largest number of members of the output section.
MaxMembers == 6

\* Grain size of the blocked_range: a range of more than Grain members is
\* split (10000 in the program, scaled down with the number of members).
Grain == 1

\* (sh_size, sh_addralign) of the input sections.
MemberShapes == {<<1, 1>>, <<2, 2>>, <<4, 4>>}

Max(a, b) == IF a > b THEN a ELSE b

\* align_to(val, align) for a power of two align: (val + align - 1) & ~(align - 1);
\* val for align = 0.
align_to(val, align) ==
  IF align = 0 THEN val ELSE ((val + align - 1) \div align) * align

\* The identity of the scan, T{0, 1}.
ScanIdentity == [offset |-> 0, align |-> 1]

\* The scan body over members lo..hi (1-based, inclusive) from sum: the sum
\* after the range.
RECURSIVE ScanBody(_, _, _, _)
ScanBody(m, lo, hi, sum) ==
  IF lo > hi THEN sum
  ELSE ScanBody(m, lo + 1, hi,
                [offset |-> align_to(sum.offset, m[lo][2]) + m[lo][1],
                 align |-> Max(sum.align, m[lo][2])])

\* The offset the final scan body writes to member i of the range lo..hi.
ScanOffset(m, lo, i, sum) ==
  align_to(ScanBody(m, lo, i - 1, sum).offset, m[i][2])

\* The same, adding the offsets without aligning the left one.
CombineUnaligned(lhs, rhs) ==
  [offset |-> lhs.offset + rhs.offset, align |-> Max(lhs.align, rhs.align)]

\* The combine function of the scan (passes.cc 533-537).
Combine(lhs, rhs) ==
  [offset |-> align_to(lhs.offset, rhs.align) + rhs.offset,
   align |-> Max(lhs.align, rhs.align)]

\* simple_partitioner: a blocked_range lo..hi of more than Grain members is
\* split in the middle, recursively; the sub-ranges in order.
RECURSIVE SplitRange(_, _)
SplitRange(lo, hi) ==
  IF hi - lo + 1 > Grain
  THEN LET mid == lo + (hi - lo + 1) \div 2
       IN SplitRange(lo, mid - 1) \o SplitRange(mid, hi)
  ELSE <<<<lo, hi>>>>

\* Index of the sub-range that starts at member lo.
LeafAt(lo) == CHOOSE i \in 1..Len(ranges) : ranges[i][1] = lo

\* The sub-ranges lo..hi covers that had no pre-scan: they had their final
\* scan at once, from the running sum.
AllFinal(lo, hi) ==
  \A i \in 1..Len(ranges) :
    lo <= ranges[i][1] /\ ranges[i][2] <= hi => pre_sum[i] = <<>>

\* The summary of the node lo..hi of the split tree: the running sum where
\* the node was scanned finally at once, the pre-scan summary of a
\* pre-scanned sub-range, and the combination of the two halves otherwise
\* (the right half alone where it starts with the running sum, which
\* already holds all that is to its left).
RECURSIVE Summary(_, _)
Summary(lo, hi) ==
  IF AllFinal(lo, hi) THEN ScanBody(members, 1, hi, ScanIdentity)
  ELSE IF hi - lo + 1 > Grain
  THEN LET mid == lo + (hi - lo + 1) \div 2
       IN IF pre_sum[LeafAt(mid)] = <<>> THEN Summary(mid, hi)
          ELSE Combine(Summary(lo, mid - 1), Summary(mid, hi))
  ELSE pre_sum[LeafAt(lo)]

\* The sum handed to the final scan of the sub-range starting at member at,
\* inside the node lo..hi that is entered with the sum inc.
RECURSIVE Incoming(_, _, _, _)
Incoming(lo, hi, inc, at) ==
  IF hi - lo + 1 > Grain
  THEN LET mid == lo + (hi - lo + 1) \div 2
       IN IF at < mid THEN Incoming(lo, mid - 1, inc, at)
          ELSE Incoming(mid, hi,
                        IF pre_sum[LeafAt(lo)] = <<>> THEN Summary(lo, mid - 1)
                        ELSE Combine(inc, Summary(lo, mid - 1)),
                        at)
  ELSE inc

MemberLists == UNION {[1..n -> MemberShapes] : n \in 1..MaxMembers}

InitSizes ==
  /\ pc = "scan"
  /\ members \in MemberLists
  /\ isec_offset = [i \in 1..Len(members) |-> 0]
  /\ ranges = SplitRange(1, Len(members))
  /\ pre_sum = [i \in 1..Len(ranges) |-> <<>>]
  /\ scanned = {}
  /\ carry = ScanIdentity
  /\ osec_shdr = [sh_size |-> 0, sh_addralign |-> 1]
  /\ IdleResolve /\ IdleComdat /\ IdleLayout /\ IdleRank /\ IdleDynamic /\ IdleMore

\* isec_offset after the final scan of sub-range r from the sum inc.
WriteOffsets(r, inc) ==
  [i \in 1..Len(members) |->
     IF ranges[r][1] <= i /\ i <= ranges[r][2]
     THEN ScanOffset(members, ranges[r][1], i, inc)
     ELSE isec_offset[i]]

\* The thread that started the scan runs the body with is_final on the
\* next sub-range in order, from its running sum.
FinalScanInOrder ==
  /\ pc = "scan"
  /\ Cardinality(scanned) < Len(ranges)
  /\ LET r == Cardinality(scanned) + 1 IN
       /\ isec_offset' = WriteOffsets(r, carry)
       /\ carry' = ScanBody(members, ranges[r][1], ranges[r][2], carry)
       /\ scanned' = scanned \cup {r}
  /\ UNCHANGED <<pc, members, ranges, pre_sum, osec_shdr>>
  /\ UNCHANGED not_sizes

\* The rest of the range is stolen: its sub-ranges are pre-scanned.
StealRest ==
  /\ pc = "scan"
  /\ scanned # {}
  /\ Cardinality(scanned) < Len(ranges)
  /\ pc' = "pre_scan"
  /\ UNCHANGED size_vars
  /\ UNCHANGED not_sizes

\* The body runs without is_final on sub-range r, from the identity.
PreScan(r) ==
  /\ pc = "pre_scan"
  /\ r \in (1..Len(ranges)) \ scanned
  /\ pre_sum[r] = <<>>
  /\ pre_sum' = [pre_sum EXCEPT ![r] =
                   ScanBody(members, ranges[r][1], ranges[r][2], ScanIdentity)]
  /\ UNCHANGED <<pc, members, isec_offset, ranges, scanned, carry, osec_shdr>>
  /\ UNCHANGED not_sizes

PreScansDone == \A r \in (1..Len(ranges)) \ scanned : pre_sum[r] # <<>>

JoinPreScans ==
  /\ pc = "pre_scan"
  /\ PreScansDone
  /\ pc' = "final_pass"
  /\ UNCHANGED size_vars
  /\ UNCHANGED not_sizes

\* The second pass: the body runs with is_final on a pre-scanned sub-range,
\* from the combination of the summaries to its left.
FinalScanOfPreScanned(r) ==
  /\ pc = "final_pass"
  /\ r \in (1..Len(ranges)) \ scanned
  /\ LET inc == Incoming(1, Len(members), ScanIdentity, ranges[r][1]) IN
       /\ isec_offset' = WriteOffsets(r, inc)
       /\ carry' = IF r = Len(ranges)
                   THEN ScanBody(members, ranges[r][1], ranges[r][2], inc)
                   ELSE carry
  /\ scanned' = scanned \cup {r}
  /\ UNCHANGED <<pc, members, ranges, pre_sum, osec_shdr>>
  /\ UNCHANGED not_sizes

\* passes.cc 540-541: parallel_scan returns the sum after the last member.
FinishScan ==
  /\ pc \in {"scan", "final_pass"}
  /\ Cardinality(scanned) = Len(ranges)
  /\ osec_shdr' = [sh_size |-> carry.offset, sh_addralign |-> carry.align]
  /\ pc' = "sized"
  /\ UNCHANGED <<members, isec_offset, ranges, pre_sum, scanned, carry>>
  /\ UNCHANGED not_sizes

NextSizes ==
  \/ FinalScanInOrder
  \/ StealRest
  \/ \E r \in 1..MaxMembers : PreScan(r)
  \/ JoinPreScans
  \/ \E r \in 1..MaxMembers : FinalScanOfPreScanned(r)
  \/ FinishScan

SpecSizes == InitSizes /\ [][NextSizes]_vars

\* The sequential left-to-right layout: offset = align_to(previous end,
\* member alignment).
RECURSIVE SeqEnd(_, _)
SeqEnd(m, n) ==
  IF n = 0 THEN 0 ELSE align_to(SeqEnd(m, n - 1), m[n][2]) + m[n][1]

SeqOffsetOf(m, i) == align_to(SeqEnd(m, i - 1), m[i][2])

RECURSIVE MaxAlign(_, _)
MaxAlign(m, n) == IF n = 0 THEN 1 ELSE Max(MaxAlign(m, n - 1), m[n][2])

\* C7: whatever sub-ranges were pre-scanned, every member's offset and the
\* section's sh_size and sh_addralign are those of the sequential layout.
C7_ScanIsSequentialLayout ==
  pc = "sized" =>
    /\ \A i \in 1..Len(members) : isec_offset[i] = SeqOffsetOf(members, i)
    /\ osec_shdr.sh_size = SeqEnd(members, Len(members))
    /\ osec_shdr.sh_addralign = MaxAlign(members, Len(members))

(***************************************************************************)
(* get_section_rank                                                        *)
(***************************************************************************)

\* A chunk: which chunk of the context it is (ehdr, phdr, interp, shdr, or
\* an output section), its sh_type, the bits of its sh_flags, whether
\* is_relro holds of it, and its sh_addralign.
Shape(which, type, alloc, write, exec, tls, relro, align) ==
  [which |-> which, sh_type |-> type, alloc |-> alloc, write |-> write,
   exec |-> exec, tls |-> tls, relro |-> relro, sh_addralign |-> align]

\* is_relro(ctx, chunk): a property of the chunk that the ranking and the
\* page separation read.
is_relro(chunk) == chunk.relro

\* bool << n
Shl(b, n) == IF b THEN 2^n ELSE 0

\* The same, with the TLS and RELRO bits in each other's place.
get_section_rank_relro_over_tls(chunk) ==
  IF chunk.which = "ehdr" THEN 0
  ELSE IF chunk.which = "phdr" THEN 1
  ELSE IF chunk.which = "interp" THEN 2
  ELSE IF chunk.sh_type = "NOTE" /\ chunk.alloc
  THEN 2^10 + chunk.sh_addralign
  ELSE IF chunk.which = "shdr" THEN 2^30
  ELSE IF ~chunk.alloc THEN 2^30 - 1
  ELSE 2^20 + Shl(chunk.write, 19) + Shl(chunk.exec, 18)
            + Shl(~chunk.tls, 16) + Shl(~is_relro(chunk), 17)
            + Shl(chunk.sh_type = "NOBITS", 15)

\* The bits or-ed at 870-871 are distinct, so the or is a sum.
get_section_rank(chunk) ==
  IF chunk.which = "ehdr" THEN 0
  ELSE IF chunk.which = "phdr" THEN 1
  ELSE IF chunk.which = "interp" THEN 2
  ELSE IF chunk.sh_type = "NOTE" /\ chunk.alloc
  THEN 2^10 + chunk.sh_addralign
  ELSE IF chunk.which = "shdr" THEN 2^30
  ELSE IF ~chunk.alloc THEN 2^30 - 1
  ELSE 2^20 + Shl(chunk.write, 19) + Shl(chunk.exec, 18)
            + Shl(~chunk.tls, 17) + Shl(~is_relro(chunk), 16)
            + Shl(chunk.sh_type = "NOBITS", 15)

\* Alignments of the note sections; the largest is 1 << 20.
NoteAligns == {4, 8, 1048576}

\* The chunks that are ranked: the four fixed chunks, and an output section
\* of every type and every combination of flags.
RankShapes ==
  {Shape("ehdr", "NULL", TRUE, FALSE, FALSE, FALSE, FALSE, 8),
   Shape("phdr", "NULL", TRUE, FALSE, FALSE, FALSE, FALSE, 8),
   Shape("interp", "PROGBITS", TRUE, FALSE, FALSE, FALSE, FALSE, 1),
   Shape("shdr", "NULL", FALSE, FALSE, FALSE, FALSE, FALSE, 8)}
  \cup
  {Shape("osec", t, a, w, x, tls, r, al) :
     t \in {"PROGBITS", "NOBITS"}, a \in BOOLEAN, w \in BOOLEAN,
     x \in BOOLEAN, tls \in BOOLEAN, r \in BOOLEAN, al \in {4}}
  \cup
  {Shape("osec", "NOTE", a, w, x, tls, r, al) :
     a \in BOOLEAN, w \in BOOLEAN, x \in BOOLEAN, tls \in BOOLEAN,
     r \in BOOLEAN, al \in NoteAligns}

InitRank ==
  /\ pc = "rank"
  /\ ranked \in RankShapes \X RankShapes
  /\ rank = <<>>
  /\ IdleResolve /\ IdleComdat /\ IdleSizes /\ IdleLayout /\ IdleDynamic /\ IdleMore

\* The comparator of the sort calls get_section_rank on both chunks.
RankChunks ==
  /\ pc = "rank"
  /\ rank' = <<get_section_rank(ranked[1]), get_section_rank(ranked[2])>>
  /\ pc' = "ranked"
  /\ UNCHANGED ranked
  /\ UNCHANGED not_rank

NextRank == RankChunks

SpecRank == InitRank /\ [][NextRank]_vars

\* The place of a chunk in the required output order (passes.cc 828-843).
Class(c) ==
  IF c.which = "ehdr" THEN 1
  ELSE IF c.which = "phdr" THEN 2
  ELSE IF c.which = "interp" THEN 3
  ELSE IF c.which = "shdr" THEN 11
  ELSE IF ~c.alloc THEN 10
  ELSE IF c.sh_type = "NOTE" THEN 4
  ELSE IF ~c.write /\ ~c.exec THEN 5
  ELSE IF ~c.write THEN 6
  ELSE IF c.tls THEN 7
  ELSE IF is_relro(c) THEN 8
  ELSE 9

IsAllocNote(c) == c.which = "osec" /\ c.alloc /\ c.sh_type = "NOTE"

\* An output section that is ranked by its flags.
IsFlagRanked(c) == c.which = "osec" /\ c.alloc /\ c.sh_type # "NOTE"

SameFlagClass(x, y) ==
  /\ IsFlagRanked(x) /\ IsFlagRanked(y)
  /\ x.write = y.write /\ x.exec = y.exec /\ x.tls = y.tls
  /\ is_relro(x) = is_relro(y)

\* Neither writable and executable at once, nor a note aligned to 1 << 20
\* or more.
Ordinary(c) ==
  /\ IsFlagRanked(c) => ~(c.write /\ c.exec)
  /\ IsAllocNote(c) => c.sh_addralign < 1048576

\* data before bss inside one writable/exec/TLS/RELRO class
BssAfterData(x, y) ==
  SameFlagClass(x, y) /\ x.sh_type # "NOBITS" /\ y.sh_type = "NOBITS"
    => rank[1] < rank[2]

\* The statement of C10 as it stands, for every type and flags: a chunk of
\* an earlier class has the smaller rank, notes are in the order of their
\* alignments, and NOBITS follows the rest inside one flag class.
C10_RankOrderAllFlags ==
  pc = "ranked" =>
    LET x == ranked[1]
        y == ranked[2]
    IN /\ Class(x) < Class(y) => rank[1] < rank[2]
       /\ IsAllocNote(x) /\ IsAllocNote(y) /\ x.sh_addralign < y.sh_addralign
            => rank[1] < rank[2]
       /\ BssAfterData(x, y)

\* C10: among chunks that are not both writable and executable and notes
\* aligned to less than 1 << 20, a chunk of an earlier class of the
\* required order has the smaller rank and notes are in the order of their
\* alignments; inside one writable/exec/TLS/RELRO class every NOBITS chunk
\* has a larger rank than every other chunk, whatever the flags.
C10_RankOrder ==
  pc = "ranked" =>
    LET x == ranked[1]
        y == ranked[2]
    IN /\ Ordinary(x) /\ Ordinary(y) /\ Class(x) < Class(y)
            => rank[1] < rank[2]
       /\ Ordinary(x) /\ Ordinary(y)
          /\ IsAllocNote(x) /\ IsAllocNote(y) /\ x.sh_addralign < y.sh_addralign
            => rank[1] < rank[2]
       /\ BssAfterData(x, y)

\* A RELRO .bss and a non-RELRO .data have been ranked, in this order.
C10_Witness ==
  /\ pc = "ranked"
  /\ Ordinary(ranked[1]) /\ Ordinary(ranked[2])
  /\ Class(ranked[1]) = 8 /\ ranked[1].sh_type = "NOBITS"
  /\ Class(ranked[2]) = 9 /\ ranked[2].sh_type = "PROGBITS"
  /\ rank[1] < rank[2]

(***************************************************************************)
(* set_osec_offsets                                                        *)
(***************************************************************************)

\* Largest number of chunks in ctx.chunks.
MaxChunks == 3

\* ctx.page_size
page_size == 4096

\* ctx.arg.image_base
ImageBases == {0, 2097152}

\* (sh_size, sh_addralign) of the chunks.
ChunkExtents == {<<4, 4>>, <<4, 16>>, <<4100, 4>>}

\* A chunk of the layout: a shape with its size, address and file offset.
Chunk(shape, extent) ==
  [which |-> shape.which, sh_type |-> shape.sh_type, alloc |-> shape.alloc,
   write |-> shape.write, exec |-> shape.exec, tls |-> shape.tls,
   relro |-> shape.relro, sh_addralign |-> extent[2], sh_size |-> extent[1],
   sh_addr |-> 0, sh_offset |-> 0]

\* .rodata, .text, .tdata, .tbss, .got, .data, .bss and .comment
LayoutShapes ==
  {Shape("osec", "PROGBITS", TRUE, FALSE, FALSE, FALSE, FALSE, 0),
   Shape("osec", "PROGBITS", TRUE, FALSE, TRUE, FALSE, FALSE, 0),
   Shape("osec", "PROGBITS", TRUE, TRUE, FALSE, TRUE, TRUE, 0),
   Shape("osec", "NOBITS", TRUE, TRUE, FALSE, TRUE, TRUE, 0),
   Shape("osec", "PROGBITS", TRUE, TRUE, FALSE, FALSE, TRUE, 0),
   Shape("osec", "PROGBITS", TRUE, TRUE, FALSE, FALSE, FALSE, 0),
   Shape("osec", "NOBITS", TRUE, TRUE, FALSE, FALSE, FALSE, 0),
   Shape("osec", "PROGBITS", FALSE, FALSE, FALSE, FALSE, FALSE, 0)}

LayoutChunks == {Chunk(sh, e) : sh \in LayoutShapes, e \in ChunkExtents}

\* ctx.chunks is sorted by get_section_rank before the layout.
SortedChunkLists ==
  {l \in UNION {[1..n -> LayoutChunks] : n \in 1..MaxChunks} :
     \A i \in 1..(Len(l) - 1) :
       get_section_rank(l[i]) <= get_section_rank(l[i + 1])}

\* The segment permissions of a chunk.
to_phdr_flags(chunk) == <<chunk.write, chunk.exec>>

\* separate_page(ctx, x, y): the two chunks belong to different segments,
\* by a change of permissions or of RELRO status.
separate_page(x, y) ==
  to_phdr_flags(x) # to_phdr_flags(y) \/ is_relro(x) # is_relro(y)

\* The same, with the skew added to val rounded up to align plus align:
\* congruent to the skew, but not the least such value.
align_with_skew_from_next(val, align, skew) ==
  align_to(val, align) + align + (skew % align)

\* The same, rounding val up to align without regard to the skew.
align_with_skew_unskewed(val, align, skew) == align_to(val, align)

align_with_skew(val, align, skew) ==
  LET sk == skew % align
  IN align_to(val + align - sk, align) - align + sk

\* No chunk is a tbss chunk.
is_tbss_never(chunk) == FALSE

is_tbss(chunk) == chunk.sh_type = "NOBITS" /\ chunk.tls

InitLayout ==
  /\ pc = "assign_addr"
  /\ chunks \in SortedChunkLists
  /\ image_base \in ImageBases
  /\ idx = 1
  /\ cursor = image_base
  /\ filesize = 0
  /\ IdleResolve /\ IdleComdat /\ IdleSizes /\ IdleRank /\ IdleDynamic /\ IdleMore

\* The same, never rounding up to a page.
NewPageNever(addr, i) == addr

\* passes.cc 899-900: addr when chunk i has to start a new page.
NewPage(addr, i) ==
  IF i > 1 /\ separate_page(chunks[i - 1], chunks[i])
  THEN align_to(addr, page_size) ELSE addr

\* One iteration of the loop at 895-910.
AssignAddress ==
  /\ pc = "assign_addr"
  /\ idx <= Len(chunks)
  /\ LET c == chunks[idx]
         paged == NewPage(cursor, idx)
         aligned == align_to(paged, c.sh_addralign)
     IN IF ~c.alloc
        THEN UNCHANGED <<chunks, cursor>>
        ELSE IF is_tbss(c)
        THEN /\ chunks' = [chunks EXCEPT ![idx].sh_addr = paged]
             /\ cursor' = paged
        ELSE /\ chunks' = [chunks EXCEPT ![idx].sh_addr = aligned]
             /\ cursor' = aligned + c.sh_size
  /\ idx' = idx + 1
  /\ UNCHANGED <<pc, image_base, filesize>>
  /\ UNCHANGED not_layout

AddressesAssigned ==
  /\ pc = "assign_addr"
  /\ idx > Len(chunks)
  /\ pc' = "fix_tbss"
  /\ idx' = 1
  /\ UNCHANGED <<chunks, image_base, filesize, cursor>>
  /\ UNCHANGED not_layout

\* The inner loop at 923-927 from chunk i with the address addr: the chunks
\* after it, and the index it stops at.
RECURSIVE FixRun(_, _, _)
FixRun(chs, i, addr) ==
  IF i <= Len(chs) /\ is_tbss(chs[i])
  THEN LET a == align_to(addr, chs[i].sh_addralign)
       IN FixRun([chs EXCEPT ![i].sh_addr = a], i + 1, a + chs[i].sh_size)
  ELSE chs

RECURSIVE RunEnd(_, _)
RunEnd(chs, i) ==
  IF i <= Len(chs) /\ is_tbss(chs[i]) THEN RunEnd(chs, i + 1) ELSE i

\* One iteration of the loop at 920-931 on a tbss chunk.
FixTbssRun ==
  /\ pc = "fix_tbss"
  /\ idx <= Len(chunks)
  /\ is_tbss(chunks[idx])
  /\ chunks' = FixRun(chunks, idx, chunks[idx].sh_addr)
  /\ idx' = RunEnd(chunks, idx)
  /\ UNCHANGED <<pc, image_base, filesize, cursor>>
  /\ UNCHANGED not_layout

\* One iteration of the loop at 920-931 on another chunk.
SkipNonTbss ==
  /\ pc = "fix_tbss"
  /\ idx <= Len(chunks)
  /\ ~is_tbss(chunks[idx])
  /\ idx' = idx + 1
  /\ UNCHANGED <<pc, chunks, image_base, filesize, cursor>>
  /\ UNCHANGED not_layout

TbssFixed ==
  /\ pc = "fix_tbss"
  /\ idx > Len(chunks)
  /\ pc' = "assign_off"
  /\ idx' = 1
  /\ cursor' = 0
  /\ UNCHANGED <<chunks, image_base, filesize>>
  /\ UNCHANGED not_layout

\* One iteration of the loop at 935-943.
AssignOffset ==
  /\ pc = "assign_off"
  /\ idx <= Len(chunks)
  /\ LET c == chunks[idx]
         off == align_with_skew(cursor, page_size, c.sh_addr)
     IN IF c.sh_type = "NOBITS"
        THEN /\ chunks' = [chunks EXCEPT ![idx].sh_offset = cursor]
             /\ UNCHANGED cursor
        ELSE /\ chunks' = [chunks EXCEPT ![idx].sh_offset = off]
             /\ cursor' = off + c.sh_size
  /\ idx' = idx + 1
  /\ UNCHANGED <<pc, image_base, filesize>>
  /\ UNCHANGED not_layout

\* return fileoff
ReturnFileoff ==
  /\ pc = "assign_off"
  /\ idx > Len(chunks)
  /\ filesize' = cursor
  /\ pc' = "laid_out"
  /\ UNCHANGED <<chunks, image_base, idx, cursor>>
  /\ UNCHANGED not_layout

NextLayout ==
  \/ AssignAddress
  \/ AddressesAssigned
  \/ FixTbssRun
  \/ SkipNonTbss
  \/ TbssFixed
  \/ AssignOffset
  \/ ReturnFileoff

SpecLayout == InitLayout /\ [][NextLayout]_vars

Congruent(c) == c.sh_offset % page_size = c.sh_addr % page_size

\* The end in the file of the last chunk before i that is not NOBITS.
RECURSIVE FileEndBefore(_)
FileEndBefore(i) ==
  IF i = 1 THEN 0
  ELSE IF chunks[i - 1].sh_type = "NOBITS" THEN FileEndBefore(i - 1)
  ELSE chunks[i - 1].sh_offset + chunks[i - 1].sh_size

\* The statement of C8 as it stands: every SHF_ALLOC chunk, NOBITS or not,
\* has sh_offset congruent to sh_addr modulo the page size.
C8_AllocOffsetCongruent ==
  pc = "laid_out" => \A i \in 1..Len(chunks) : chunks[i].alloc => Congruent(chunks[i])

\* C8: after set_osec_offsets every SHF_ALLOC chunk that is not SHT_NOBITS
\* has sh_offset congruent to sh_addr modulo the page size; the sh_offset
\* of a NOBITS chunk is the file end of the chunks before it.
C8_ProgbitsOffsetCongruent ==
  pc = "laid_out" =>
    \A i \in 1..Len(chunks) :
      chunks[i].alloc =>
        IF chunks[i].sh_type = "NOBITS"
        THEN chunks[i].sh_offset = FileEndBefore(i)
        ELSE Congruent(chunks[i])

\* An alloc chunk with contents lies off a page boundary, behind another
\* chunk, and a NOBITS chunk has its offset.
C8_Witness ==
  /\ pc = "laid_out"
  /\ \E i \in 2..Len(chunks) :
       /\ chunks[i].alloc /\ chunks[i].sh_type # "NOBITS"
       /\ chunks[i].sh_addr % page_size # 0
       /\ chunks[i].sh_offset > chunks[i - 1].sh_offset
       /\ Congruent(chunks[i])
  /\ \E i \in 2..Len(chunks) :
       /\ chunks[i].alloc /\ chunks[i].sh_type = "NOBITS"
       /\ chunks[i].sh_offset = FileEndBefore(i)

TbssAt(i) == chunks[i].sh_type = "NOBITS" /\ chunks[i].tls

\* i is the first chunk of a maximal run of TBSS chunks that ends at j and
\* is followed by the alloc chunk j + 1.
TbssRun(i, j) ==
  /\ i <= j /\ j < Len(chunks)
  /\ \A m \in i..j : TbssAt(m)
  /\ i = 1 \/ ~TbssAt(i - 1)
  /\ ~TbssAt(j + 1)
  /\ chunks[j + 1].alloc

\* The statement of C9 as it stands: the chunk after a TBSS run has the
\* sh_addr of the first TBSS chunk of the run.
C9_FollowerAtFirstTbss ==
  pc = "laid_out" =>
    \A i, j \in 1..Len(chunks) :
      TbssRun(i, j) => chunks[j + 1].sh_addr = chunks[i].sh_addr

\* No two neighbours from chunk i to chunk k are on separate pages.
SamePages(i, k) ==
  \A m \in i..(k - 1) : ~separate_page(chunks[m], chunks[m + 1])

\* C9: after set_osec_offsets the alloc chunk that follows a maximal run of
\* TBSS chunks has the sh_addr of the first TBSS chunk of the run, provided
\* it has that chunk's sh_addralign and no page separation lies between the
\* first TBSS chunk and it.
C9_FollowerAtFirstTbssSameAlign ==
  pc = "laid_out" =>
    \A i, j \in 1..Len(chunks) :
      TbssRun(i, j) /\ chunks[j + 1].sh_addralign = chunks[i].sh_addralign
        /\ SamePages(i, j + 1)
        => chunks[j + 1].sh_addr = chunks[i].sh_addr

\* A run of TBSS chunks off a page boundary is followed, in the same
\* segment, by a chunk of the same alignment at the address of its first.
C9_Witness ==
  /\ pc = "laid_out"
  /\ \E i, j \in 1..Len(chunks) :
       /\ TbssRun(i, j)
       /\ chunks[j + 1].sh_addralign = chunks[i].sh_addralign
       /\ SamePages(i, j + 1)
       /\ chunks[i].sh_size > 0
       /\ chunks[j + 1].sh_addr = chunks[i].sh_addr
       /\ chunks[i].sh_addr % page_size # 0

(***************************************************************************)
(* apply_version_script, compute_import_export, scan_rels                  *)
(*                                                                         *)
(* One object file a.o and one shared object c.so are linked; the symbols  *)
(* foo and bar are each defined by a.o, defined by c.so, or undefined.     *)
(***************************************************************************)

DynNames == {"foo", "bar"}

\* The spelling of a symbol name.
NameChars(n) == IF n = "foo" THEN <<"f", "o", "o">> ELSE <<"b", "a", "r">>

\* -shared, -pie and -Bsymbolic: a non-PIC executable, a PIE, a shared
\* object, and a shared object with -Bsymbolic.
LinkModes ==
  {[shared |-> FALSE, pic |-> FALSE, Bsymbolic |-> FALSE],
   [shared |-> FALSE, pic |-> TRUE, Bsymbolic |-> FALSE],
   [shared |-> TRUE, pic |-> TRUE, Bsymbolic |-> FALSE],
   [shared |-> TRUE, pic |-> TRUE, Bsymbolic |-> TRUE]}

\* A clause of ctx.arg.version_patterns (no cpp_patterns).
VersionPattern(ver, pats) == [ver_idx |-> ver, patterns |-> pats]

\* No version script, { global: foo; local: *; }, { local: foo; } and
\* { global: f*; local: *; }.  "local: *" makes LOCAL the default version.
VersionScripts ==
  {[default_version |-> "GLOBAL", version_patterns |-> <<>>],
   [default_version |-> "LOCAL",
    version_patterns |-> <<VersionPattern("GLOBAL", <<NameChars("foo")>>)>>],
   [default_version |-> "GLOBAL",
    version_patterns |-> <<VersionPattern("LOCAL", <<NameChars("foo")>>)>>],
   [default_version |-> "LOCAL",
    version_patterns |-> <<VersionPattern("GLOBAL", <<<<"f", "*">>>>)>>]}

\* What the input says of a symbol: the file of its winning definition, its
\* visibility, whether a.o has it in its symbol table, whether c.so refers
\* to it, and the flags scan_relocations finds for it.
SymbolInputs ==
  {[file |-> "a.o", visibility |-> v, in_obj |-> TRUE, in_dso_globals |-> r,
    needs |-> n] :
     v \in {"DEFAULT", "HIDDEN", "PROTECTED"}, r \in BOOLEAN,
     n \in {{}, {"NEEDS_GOT"}, {"NEEDS_PLT"}, {"NEEDS_GOT", "NEEDS_PLT"}}}
  \cup
  {[file |-> "a.o", visibility |-> "HIDDEN", in_obj |-> TRUE,
    in_dso_globals |-> FALSE, needs |-> n] :
     n \in {{"NEEDS_GOTTP", "NEEDS_TLSLD"}, {"NEEDS_TLSGD", "NEEDS_TLSLD"},
            {"NEEDS_TLSDESC", "NEEDS_GOTTP"}}}
  \cup
  {[file |-> "c.so", visibility |-> "DEFAULT", in_obj |-> TRUE,
    in_dso_globals |-> FALSE, needs |-> n] :
     n \in {{}, {"NEEDS_GOT"}, {"NEEDS_PLT"}, {"NEEDS_GOT", "NEEDS_PLT"},
            {"NEEDS_COPYREL"}}}
  \cup
  {[file |-> "c.so", visibility |-> "DEFAULT", in_obj |-> FALSE,
    in_dso_globals |-> FALSE, needs |-> {}],
   [file |-> "none", visibility |-> "DEFAULT", in_obj |-> TRUE,
    in_dso_globals |-> FALSE, needs |-> {}]}

\* A copy relocation is only asked for in a non-PIC output.
DynInputs ==
  {in \in [mode : LinkModes, script : VersionScripts,
           symbols : [DynNames -> SymbolInputs],
           aliased : BOOLEAN, readonly : BOOLEAN] :
     /\ in.aliased => \A n \in DynNames : in.symbols[n].file = "c.so"
     /\ in.readonly => \E n \in DynNames : "NEEDS_COPYREL" \in in.symbols[n].needs
     /\ in.mode.pic => \A n \in DynNames : "NEEDS_COPYREL" \notin in.symbols[n].needs}

\* The symbols of a file, in the order of its symbol table.
SymbolOrder == <<"foo", "bar">>

\* The address of a symbol of c.so: one address for aliases.
DsoValue(in, n) == IF in.aliased \/ n = "foo" THEN 4096 ELSE 8192

NoTables ==
  [dynsym |-> <<>>, got |-> <<>>, plt |-> <<>>, pltgot |-> <<>>,
   dynbss |-> <<>>, dynbss_relro |-> <<>>, symbol_aux |-> 0,
   gottp |-> <<>>, tlsgd |-> <<>>, tlsdesc |-> <<>>, tlsld |-> 0]

InitDynamic ==
  /\ pc = "apply_version_script"
  /\ dyn_in \in DynInputs
  /\ dsyms = [n \in DynNames |->
                [file |-> dyn_in.symbols[n].file,
                 visibility |-> dyn_in.symbols[n].visibility,
                 ver_idx |-> IF dyn_in.symbols[n].file = "a.o"
                             THEN dyn_in.script.default_version ELSE "GLOBAL",
                 value |-> IF dyn_in.symbols[n].file = "c.so"
                           THEN DsoValue(dyn_in, n) ELSE 0,
                 flags |-> {}, is_imported |-> FALSE, is_exported |-> FALSE,
                 has_copyrel |-> FALSE, copyrel_readonly |-> FALSE,
                 aux_idx |-> -1]]
  /\ tables = NoTables
  /\ agg = <<>>
  /\ errors = {}
  /\ output_sections = <<>> /\ synthetic = <<>> /\ arg_entry = <<>>
  /\ IdleBin /\ IdleCtx
  /\ IdleResolve /\ IdleComdat /\ IdleSizes /\ IdleLayout /\ IdleRank

not_dynamic == <<resolve_vars, comdat_vars, size_vars, layout_vars, rank_vars,
                 output_sections, synthetic, arg_entry, bin_vars, ctx>>

\* pat.find_first_of("*?[") == pat.npos
IsLiteral(pat) == \A i \in 1..Len(pat) : pat[i] \notin {"*", "?", "["}

\* regex_match of a name against the regex of a glob pattern: * is any
\* string and ? is any character.
RECURSIVE GlobMatch(_, _)
GlobMatch(pat, str) ==
  IF pat = <<>> THEN str = <<>>
  ELSE IF Head(pat) = "*"
  THEN GlobMatch(Tail(pat), str) \/ (str # <<>> /\ GlobMatch(pat, Tail(str)))
  ELSE /\ str # <<>>
       /\ Head(pat) \in {"?", Head(str)}
       /\ GlobMatch(Tail(pat), Tail(str))

\* The clause elem applied to the symbols sy: a literal name sets the
\* version of the symbol of that name unless a shared object defines it;
\* the other patterns set it for the matching symbols that an object file
\* defines.
ApplyClause(sy, elem) ==
  LET pats == {elem.patterns[i] : i \in 1..Len(elem.patterns)}
      literal(n) == \E p \in pats : IsLiteral(p) /\ p = NameChars(n)
      globbed(n) == \E p \in pats : ~IsLiteral(p) /\ GlobMatch(p, NameChars(n))
  IN [n \in DynNames |->
        IF \/ literal(n) /\ sy[n].file \notin {"none", "c.so"}
           \/ globbed(n) /\ sy[n].file = "a.o"
        THEN [sy[n] EXCEPT !.ver_idx = elem.ver_idx]
        ELSE sy[n]]

RECURSIVE ApplyClauses(_, _)
ApplyClauses(sy, elems) ==
  IF elems = <<>> THEN sy
  ELSE ApplyClauses(ApplyClause(sy, Head(elems)), Tail(elems))

ApplyVersionScript ==
  /\ pc = "apply_version_script"
  /\ dsyms' = ApplyClauses(dsyms, dyn_in.script.version_patterns)
  /\ pc' = "compute_import_export"
  /\ UNCHANGED <<dyn_in, tables, agg, errors>>
  /\ UNCHANGED not_dynamic

\* The same, with no regard to the version of the symbol.
SkippedByClassifierAnyVersion(sy) ==
  sy.file = "none" \/ sy.visibility = "HIDDEN"

\* passes.cc 790-792: the classifier passes over the symbol.
SkippedByClassifier(sy) ==
  sy.file = "none" \/ sy.visibility = "HIDDEN" \/ sy.ver_idx = "LOCAL"

\* passes.cc 777-786: in an executable, the symbols c.so refers to that an
\* object file defines and that are not hidden are exported.
ExportedToDso(sy, n) ==
  /\ ~dyn_in.mode.shared
  /\ dyn_in.symbols[n].in_dso_globals
  /\ sy.file \notin {"none", "c.so"}
  /\ sy.visibility # "HIDDEN"

\* passes.cc 788-808 for the symbol sy of the symbol table of a.o.
Classify(sy) ==
  IF SkippedByClassifier(sy) THEN sy
  ELSE IF sy.file = "c.so" THEN [sy EXCEPT !.is_imported = TRUE]
  ELSE [sy EXCEPT !.is_exported = TRUE,
                  !.is_imported = @ \/ (/\ dyn_in.mode.shared
                                        /\ sy.visibility # "PROTECTED"
                                        /\ ~dyn_in.mode.Bsymbolic)]

\* The first loop of compute_import_export.
ExportSymbolsOfDsos ==
  /\ pc = "compute_import_export"
  /\ dsyms' = [n \in DynNames |->
                 IF ExportedToDso(dsyms[n], n)
                 THEN [dsyms[n] EXCEPT !.is_exported = TRUE] ELSE dsyms[n]]
  /\ pc' = "classify"
  /\ UNCHANGED <<dyn_in, tables, agg, errors>>
  /\ UNCHANGED not_dynamic

\* The second loop of compute_import_export.
ClassifySymbolsOfObjs ==
  /\ pc = "classify"
  /\ dsyms' = [n \in DynNames |->
                 IF dyn_in.symbols[n].in_obj THEN Classify(dsyms[n]) ELSE dsyms[n]]
  /\ pc' = "scan_relocations"
  /\ UNCHANGED <<dyn_in, tables, agg, errors>>
  /\ UNCHANGED not_dynamic

\* ObjectFile::scan_relocations: the flags of the referenced symbols are
\* set, and an undefined symbol is an error.
ScanRelocations ==
  /\ pc = "scan_relocations"
  /\ dsyms' = [n \in DynNames |->
                 [dsyms[n] EXCEPT !.flags = dyn_in.symbols[n].needs]]
  /\ errors' = errors \cup
                 {<<"undefined symbol", n>> : n \in
                    {m \in DynNames : dsyms[m].file = "none"}}
  /\ pc' = "checkpoint"
  /\ UNCHANGED <<dyn_in, tables, agg>>
  /\ UNCHANGED not_dynamic

\* passes.cc 563: ctx.checkpoint() ends the link when there are errors.
ScanCheckpoint ==
  /\ pc = "checkpoint"
  /\ pc' = IF errors = {} THEN "aggregate" ELSE "exit"
  /\ UNCHANGED <<dyn_vars, errors>>
  /\ UNCHANGED not_dynamic

\* The same, for a symbol with flags only.
NeedsDynamicIfFlagged(sy) == sy.flags # {}

\* passes.cc 575
NeedsDynamic(sy) == sy.flags # {} \/ sy.is_imported \/ sy.is_exported

\* passes.cc 573-576, for the symbols ns of a file.
RECURSIVE OwnDynamicSyms(_, _)
OwnDynamicSyms(ns, file) ==
  IF ns = <<>> THEN <<>>
  ELSE LET sy == dsyms[Head(ns)]
       IN (IF sy.file = file /\ NeedsDynamic(sy)
           THEN <<Head(ns)>> ELSE <<>>) \o OwnDynamicSyms(Tail(ns), file)

\* passes.cc 566-579: the dynamic symbols of the objects, then of the DSOs.
AggregateSyms ==
  /\ pc = "aggregate"
  /\ agg' = OwnDynamicSyms(SymbolOrder, "a.o") \o OwnDynamicSyms(SymbolOrder, "c.so")
  /\ pc' = "assign"
  /\ UNCHANGED <<dyn_in, dsyms, tables, errors>>
  /\ UNCHANGED not_dynamic

Contains(seq, x) == \E i \in 1..Len(seq) : seq[i] = x

\* add_symbol of a table that holds a symbol once.
AddOnce(seq, x) == IF Contains(seq, x) THEN seq ELSE Append(seq, x)

\* SharedFile::find_aliases: the other symbols that c.so defines at the
\* address of n.
find_aliases(n) ==
  {m \in DynNames \ {n} :
     dsyms[m].file = "c.so" /\ DsoValue(dyn_in, m) = DsoValue(dyn_in, n)}

\* SharedFile::is_readonly: the address of n is in a read-only segment.
is_readonly(n) == dyn_in.readonly /\ DsoValue(dyn_in, n) = DsoValue(dyn_in, "foo")

\* The same, asking for an exported symbol in place of an imported one.
IsCanonicalOfExported(sy) == ~dyn_in.mode.pic /\ sy.is_exported

\* passes.cc 601
IsCanonical(sy) == ~dyn_in.mode.pic /\ sy.is_imported

\* The offset of the next symbol of .dynbss or .dynbss.rel.ro.
NextDynbssValue(t) == 64 * (Len(t.dynbss) + Len(t.dynbss_relro))

\* The same, leaving the alias at its own value.
CopyToAliasButValue(alias, value, readonly) ==
  [alias EXCEPT !.is_imported = TRUE, !.is_exported = TRUE,
                !.has_copyrel = TRUE, !.copyrel_readonly = readonly]

\* passes.cc 648-652: the alias follows the symbol.
CopyToAlias(alias, value, readonly) ==
  [alias EXCEPT !.is_imported = TRUE, !.is_exported = TRUE,
                !.has_copyrel = TRUE, !.value = value,
                !.copyrel_readonly = readonly]

\* GotSection::add_tlsld: the module has one TLSLD slot.
add_tlsld(n) == IF n = 0 THEN 1 ELSE n

\* The same, leaving the flags as they are.
KeepFlags(sy) == sy

\* passes.cc 657
ClearFlags(sy) == [sy EXCEPT !.flags = {}]

\* The same, with .dynbss for every symbol.
CopyrelSectionAlwaysDynbss(readonly) == "dynbss"

\* passes.cc 635-638: the section of a copy-relocated symbol.
CopyrelSection(readonly) == IF readonly THEN "dynbss_relro" ELSE "dynbss"

\* One iteration of the loop at 591-658, for the symbol n.
AssignSlots(n) ==
  LET sy == dsyms[n]
      canonical == "NEEDS_PLT" \in sy.flags /\ IsCanonical(sy)
      copyrel == "NEEDS_COPYREL" \in sy.flags
      readonly == is_readonly(n)
      aliases == IF copyrel THEN find_aliases(n) ELSE {}
      \* add_aux(sym), then add_aux(alias) in the order of the symbol table
      fresh == IF sy.aux_idx = -1 THEN <<n>> ELSE <<>>
      fresh_aliases ==
        SelectSeq(SymbolOrder, LAMBDA m : m \in aliases /\ dsyms[m].aux_idx = -1)
      new_aux == fresh \o fresh_aliases
      aux_of(m) == tables.symbol_aux
                     + (CHOOSE i \in 1..Len(new_aux) : new_aux[i] = m) - 1
      own_value == IF copyrel /\ ~sy.has_copyrel THEN NextDynbssValue(tables)
                   ELSE sy.value
      dynsym1 == IF sy.is_imported \/ sy.is_exported
                 THEN AddOnce(tables.dynsym, n) ELSE tables.dynsym
      \* of the two symbols, at most one is an alias of n
      dynsym2 == IF \E m \in aliases : TRUE
                 THEN AddOnce(dynsym1, CHOOSE m \in aliases : TRUE) ELSE dynsym1
  IN /\ dsyms' =
          [m \in DynNames |->
             IF m = n
             THEN ClearFlags(
                    [sy EXCEPT !.aux_idx = IF Contains(new_aux, n) THEN aux_of(n) ELSE @,
                               !.is_exported = @ \/ canonical \/ copyrel,
                               !.copyrel_readonly = IF copyrel THEN readonly ELSE @,
                               !.has_copyrel = @ \/ copyrel,
                               !.value = own_value])
             ELSE IF m \in aliases
             THEN [CopyToAlias(dsyms[m], own_value, readonly) EXCEPT
                     !.aux_idx = IF Contains(new_aux, m) THEN aux_of(m) ELSE @]
             ELSE dsyms[m]]
     /\ tables' =
          [tables EXCEPT
             !.symbol_aux = @ + Len(new_aux),
             !.dynsym = dynsym2,
             !.got = IF "NEEDS_GOT" \in sy.flags THEN AddOnce(@, n) ELSE @,
             !.gottp = IF "NEEDS_GOTTP" \in sy.flags THEN AddOnce(@, n) ELSE @,
             !.tlsgd = IF "NEEDS_TLSGD" \in sy.flags THEN AddOnce(@, n) ELSE @,
             !.tlsdesc = IF "NEEDS_TLSDESC" \in sy.flags THEN AddOnce(@, n) ELSE @,
             !.tlsld = IF "NEEDS_TLSLD" \in sy.flags THEN add_tlsld(@) ELSE @,
             !.pltgot = IF /\ "NEEDS_PLT" \in sy.flags
                           /\ "NEEDS_GOT" \in sy.flags /\ ~canonical
                        THEN AddOnce(@, n) ELSE @,
             !.plt = IF /\ "NEEDS_PLT" \in sy.flags
                        /\ ~("NEEDS_GOT" \in sy.flags /\ ~canonical)
                     THEN AddOnce(@, n) ELSE @,
             !.dynbss = IF /\ copyrel /\ ~sy.has_copyrel
                           /\ CopyrelSection(readonly) = "dynbss"
                        THEN Append(@, n) ELSE @,
             !.dynbss_relro = IF /\ copyrel /\ ~sy.has_copyrel
                                 /\ CopyrelSection(readonly) = "dynbss_relro"
                              THEN Append(@, n) ELSE @]

AssignNext ==
  /\ pc = "assign"
  /\ agg # <<>>
  /\ AssignSlots(Head(agg))
  /\ agg' = Tail(agg)
  /\ UNCHANGED <<pc, dyn_in, errors>>
  /\ UNCHANGED not_dynamic

ScanRelsDone ==
  /\ pc = "assign"
  /\ agg = <<>>
  /\ pc' = "scanned"
  /\ UNCHANGED <<dyn_vars, errors>>
  /\ UNCHANGED not_dynamic

\* ctx.arg.defsyms: none, --defsym=foo=bar or --defsym=bar=foo.
Defsyms == {<<>>, <<<<"foo", "bar">>>>, <<<<"bar", "foo">>>>}

\* The same, taking the symbol out of the dynamic symbols when it becomes
\* hidden.
DefineAsHidden(sy, sy2) ==
  [sy EXCEPT !.value = sy2.value, !.visibility = sy2.visibility,
             !.is_exported = @ /\ sy2.visibility # "HIDDEN"]

\* passes.cc 1077-1078: sym gets the address and the visibility of sym2.
DefineAs(sy, sy2) ==
  [sy EXCEPT !.value = sy2.value, !.visibility = sy2.visibility]

\* fix_synthetic_symbols, of which only the loop over the --defsym options
\* (1062-1082) writes to symbols of the input files; the symbol of such an
\* option is defined by an object file.
FixSyntheticSymbols ==
  /\ pc = "scanned"
  /\ \E defsyms \in Defsyms :
       /\ \A i \in 1..Len(defsyms) : dsyms[defsyms[i][1]].file = "a.o"
       /\ IF defsyms = <<>>
          THEN UNCHANGED <<dsyms, errors>>
          ELSE LET n == defsyms[1][1]
                   n2 == defsyms[1][2]
               IN IF dsyms[n2].file = "none"
                  THEN /\ errors' = errors \cup {<<"--defsym: undefined symbol", n2>>}
                       /\ UNCHANGED dsyms
                  ELSE /\ dsyms' = [dsyms EXCEPT ![n] = DefineAs(@, dsyms[n2])]
                       /\ UNCHANGED errors
  /\ pc' = "fixed"
  /\ UNCHANGED <<dyn_in, tables, agg>>
  /\ UNCHANGED not_dynamic

NextDynamic ==
  \/ ApplyVersionScript
  \/ ExportSymbolsOfDsos
  \/ ClassifySymbolsOfObjs
  \/ ScanRelocations
  \/ ScanCheckpoint
  \/ AggregateSyms
  \/ AssignNext
  \/ ScanRelsDone
  \/ FixSyntheticSymbols

SpecDynamic == InitDynamic /\ [][NextDynamic]_vars

InDynsym(n) == Contains(tables.dynsym, n)

\* The version script names n in a literal pattern of a global clause.
NamedGlobal(n) ==
  \E i \in 1..Len(dyn_in.script.version_patterns) :
    LET elem == dyn_in.script.version_patterns[i]
    IN /\ elem.ver_idx = "GLOBAL"
       /\ \E j \in 1..Len(elem.patterns) : elem.patterns[j] = NameChars(n)

\* A symbol of a.o whose version is LOCAL has no dynsym entry.
LocalNotInDynsym ==
  \A n \in DynNames :
    dsyms[n].file = "a.o" /\ dsyms[n].ver_idx = "LOCAL" => ~InDynsym(n)

\* C11: in every link mode, after apply_version_script,
\* compute_import_export and scan_rels, a symbol that an object file
\* defines and whose ver_idx is LOCAL is not in dynsym, also when a shared
\* object refers to it, and a symbol of an object file that is not hidden
\* and that a literal global pattern names is exported and in dynsym.
C11_LocalVersionNotDynamic ==
  pc = "scanned" =>
    /\ LocalNotInDynsym
    /\ \A n \in DynNames :
         dsyms[n].file = "a.o" /\ NamedGlobal(n) /\ dsyms[n].visibility # "HIDDEN"
           => dsyms[n].is_exported /\ InDynsym(n)

\* The symbol n has had its iteration of the loop of scan_rels.
Assigned(n) ==
  \/ pc = "scanned"
  \/ pc = "assign" /\ ~Contains(agg, n) /\ dsyms[n].flags = {}

\* n needed a PLT entry, in a non-PIC output, and is imported.
NeedsCanonicalPlt(n) ==
  /\ "NEEDS_PLT" \in dyn_in.symbols[n].needs
  /\ ~dyn_in.mode.pic
  /\ dsyms[n].is_imported

\* C12: once scan_rels has visited a symbol with NEEDS_PLT that is imported
\* into a non-PIC output, the symbol is exported, is in .plt and not in
\* .plt.got, with or without NEEDS_GOT, and is in dynsym; and no symbol is
\* ever in both .plt and .plt.got.
C12_CanonicalPltInPlt ==
  /\ \A n \in DynNames :
       Assigned(n) /\ NeedsCanonicalPlt(n)
         => /\ dsyms[n].is_exported
            /\ Contains(tables.plt, n) /\ ~Contains(tables.pltgot, n)
            /\ InDynsym(n)
  /\ pc \in {"assign", "scanned"}
       => \A n \in DynNames : ~(Contains(tables.plt, n) /\ Contains(tables.pltgot, n))

\* A function of c.so that needs both a GOT and a PLT entry got a canonical
\* PLT, while the other symbol went to .plt.got.
C12_Witness ==
  /\ pc = "scanned"
  /\ NeedsCanonicalPlt("foo")
  /\ "NEEDS_GOT" \in dyn_in.symbols["foo"].needs
  /\ Contains(tables.plt, "foo") /\ dsyms["foo"].is_exported
  /\ Contains(tables.got, "foo")
  /\ Contains(tables.pltgot, "bar")

\* C13: after scan_rels, every alias in c.so of a symbol that needed a copy
\* relocation is in dynsym, is imported and exported, has has_copyrel, and
\* has the value and the copyrel_readonly of the symbol, whether the alias
\* comes before or after the symbol in the aggregated list or is not in it.
C13_AliasesShareCopyrel ==
  pc = "scanned" =>
    \A n, m \in DynNames :
      /\ "NEEDS_COPYREL" \in dyn_in.symbols[n].needs
      /\ m # n /\ dsyms[m].file = "c.so" /\ dyn_in.aliased
      => /\ InDynsym(m)
         /\ dsyms[m].is_imported /\ dsyms[m].is_exported /\ dsyms[m].has_copyrel
         /\ dsyms[m].value = dsyms[n].value
         /\ dsyms[m].copyrel_readonly = dsyms[n].copyrel_readonly

\* bar got a copy relocation in .dynbss.rel.ro after its alias foo, which
\* only needed a GOT entry, had been visited; foo has followed it.
C13_Witness ==
  /\ pc = "scanned"
  /\ dyn_in.aliased
  /\ dyn_in.symbols["bar"].needs = {"NEEDS_COPYREL"}
  /\ dyn_in.symbols["foo"].needs = {"NEEDS_GOT"}
  /\ tables.dynbss_relro = <<"bar">>
  /\ dsyms["foo"].has_copyrel /\ dsyms["foo"].copyrel_readonly
  /\ dsyms["foo"].value = dsyms["bar"].value
  /\ dsyms["foo"].value # DsoValue(dyn_in, "foo")
  /\ InDynsym("foo") /\ InDynsym("bar")

\* The statement of C14 as it stands: after compute_import_export an
\* imported symbol is defined by the shared object, or an undefined-symbol
\* error has been reported, in every link mode.
C14_ImportedIsDefinedByDso ==
  pc = "scan_relocations" =>
    \A n \in DynNames :
      dsyms[n].is_imported => dsyms[n].file = "c.so" \/ errors # {}

\* An exported symbol of an object file that another definition may
\* replace at run time.
Interposable(n) ==
  /\ dyn_in.mode.shared /\ ~dyn_in.mode.Bsymbolic
  /\ dsyms[n].file = "a.o"
  /\ dsyms[n].visibility \notin {"HIDDEN", "PROTECTED"}
  /\ dsyms[n].ver_idx # "LOCAL"
  /\ dsyms[n].is_exported

\* C14: after compute_import_export every imported symbol is defined by a
\* shared object of the link, or the output is a shared object without
\* -Bsymbolic and the symbol is an exported, non-hidden, non-protected
\* symbol of an object file whose version is not LOCAL.
C14_ImportedIsDsoOrInterposable ==
  pc = "scan_relocations" =>
    \A n \in DynNames :
      dsyms[n].is_imported => dsyms[n].file = "c.so" \/ Interposable(n)

\* In a shared object, foo of a.o and bar of c.so are both imported.
C14_Witness ==
  /\ pc = "scan_relocations"
  /\ dsyms["foo"].is_imported /\ Interposable("foo")
  /\ dsyms["bar"].is_imported /\ dsyms["bar"].file = "c.so"

\* C15: no step of compute_import_export, scan_rels (canonical PLT, copy
\* relocation and aliases included) or fix_synthetic_symbols resets
\* is_exported of a symbol that has it set.
C15_ExportedStaysExported ==
  [][\A n \in DynNames : dsyms[n].is_exported => dsyms'[n].is_exported]_vars

\* foo, exported by compute_import_export, has been through scan_rels and
\* --defsym=foo=bar, which gave it the value of bar.
C15_Witness ==
  /\ pc = "fixed"
  /\ dsyms["foo"].file = "a.o" /\ dsyms["foo"].is_exported
  /\ InDynsym("foo")
  /\ dsyms["bar"].file = "c.so" /\ dsyms["bar"].has_copyrel
  /\ dsyms["foo"].value = dsyms["bar"].value
  /\ dyn_in.symbols["foo"].needs # {}

(***************************************************************************)
(* check_duplicate_symbols                                                 *)
(*                                                                         *)
(* The objects of ctx.objs, after symbol resolution and the elimination of *)
(* comdat groups, each with its entry for one global symbol.               *)
(***************************************************************************)

\* Number of input object files; file 0 is the internal object.
NumDupObjs == 3

DupObjs == 0..NumDupObjs

\* The entry of a file for the symbol: none, undefined, weak, common, a
\* global definition in a live section, one in a dead section, or an
\* absolute one.
DupKinds == {"none", "undef", "weak", "common", "def", "def_dead", "abs"}

\* What the entry was for the resolver, which ran while all sections were
\* alive.
ResolvedAs(k) == IF k \in {"def", "def_dead", "abs"} THEN "def" ELSE k

\* sym.file after resolution: the definition of the highest tier and then
\* of the least priority; -1 is the null file.
Winner(es) ==
  LET definers == {f \in DOMAIN es : RegularTier(ResolvedAs(es[f])) > 0}
  IN IF definers = {} THEN -1
     ELSE CHOOSE f \in definers :
            \A g \in definers \ {f} :
              \/ RegularTier(ResolvedAs(es[f])) > RegularTier(ResolvedAs(es[g]))
              \/ /\ RegularTier(ResolvedAs(es[f])) = RegularTier(ResolvedAs(es[g]))
                 /\ priority(f) < priority(g)

\* The symbols of the internal object are absolute (passes.cc 331-338).
DupInputs ==
  {es \in [DupObjs -> DupKinds] : es[0] \in {"none", "abs"}}

InitDup ==
  /\ pc = "check_dup_syms"
  /\ elf_syms \in DupInputs
  /\ sym = [file |-> Winner(elf_syms)]
  /\ objs = DupObjs
  /\ todo = DupObjs
  /\ errors = {}
  /\ arg_undefined = <<>> /\ arg_require_defined = <<>> /\ dsos = <<>>
  /\ is_alive = <<>> /\ feed = <<>>
  /\ output_sections = <<>> /\ synthetic = <<>> /\ arg_entry = <<>>
  /\ IdleBin /\ IdleCtx
  /\ IdleComdat /\ IdleSizes /\ IdleLayout /\ IdleRank /\ IdleDynamic

not_dup == <<arg_undefined, arg_require_defined, dsos, is_alive, feed,
             comdat_vars, size_vars, layout_vars, rank_vars, dyn_vars,
             output_sections, synthetic, arg_entry, bin_vars, ctx>>

\* The same, without the test of the binding.
PassedOverWeakToo(k) == k \in {"none", "undef", "common"}

\* passes.cc 448: the entry is undefined, common or weak.
PassedOver(k) == k \in {"none", "undef", "common", "weak"}

\* passes.cc 447-455: the entry of file is reported.
IsDuplicate(file) ==
  /\ ~(sym.file = file \/ sym.file = 0 \/ PassedOver(elf_syms[file]))
  /\ ~(elf_syms[file] # "abs" /\ elf_syms[file] = "def_dead")

\* The task of one object in the parallel_for_each.
CheckDuplicateSymbols(file) ==
  /\ pc = "check_dup_syms"
  /\ file \in todo
  /\ errors' = IF IsDuplicate(file)
               THEN errors \cup {<<"duplicate symbol", file, sym.file>>}
               ELSE errors
  /\ todo' = todo \ {file}
  /\ UNCHANGED <<pc, elf_syms, sym, objs>>
  /\ UNCHANGED not_dup

\* passes.cc 459
DupCheckpoint ==
  /\ pc = "check_dup_syms"
  /\ todo = {}
  /\ pc' = IF errors = {} THEN "checked" ELSE "exit"
  /\ UNCHANGED <<elf_syms, sym, objs, todo, errors>>
  /\ UNCHANGED not_dup

NextDup ==
  \/ \E file \in DupObjs : CheckDuplicateSymbols(file)
  \/ DupCheckpoint

SpecDup == InitDup /\ [][NextDup]_vars

\* The file holds a non-weak, non-common global definition, in a live
\* section or absolute, of the symbol, whose winning definition is in
\* another file that is not the internal object.
HoldsLosingStrongDef(f) ==
  /\ elf_syms[f] \in {"def", "abs"}
  /\ sym.file # f /\ sym.file # 0

\* C16: check_duplicate_symbols reports an error, and its checkpoint ends
\* the link, exactly when an object holds a non-weak, non-common global
\* definition, in a live section or absolute, of a symbol that another file
\* than the internal object won; every error is about such an entry.
C16_DuplicateIffLosingStrongDef ==
  /\ pc \in {"checked", "exit"}
       => (pc = "exit" <=> \E f \in objs : HoldsLosingStrongDef(f))
  /\ \A e \in errors : HoldsLosingStrongDef(e[2])

\* The link ended on the duplicate of a live definition while a weak, a
\* common or a dead definition of other objects went unreported.
C16_Witness ==
  /\ pc = "exit"
  /\ \E f \in objs : elf_syms[f] = "def" /\ <<"duplicate symbol", f, sym.file>> \in errors
  /\ \E f \in objs : elf_syms[f] \in {"weak", "common", "def_dead"} /\ sym.file # f
  /\ Cardinality(errors) = 1

(***************************************************************************)
(* sort_init_fini                                                          *)
(*                                                                         *)
(* A name is the sequence of its characters.  A member of an output        *)
(* section is an input section: its name, the number N its name was built  *)
(* with (-1 when it was built without one) and its position in the output  *)
(* section before the pass.                                                *)
(***************************************************************************)

\* The most members of one output section.
MaxInitMembers == 3

Digits == <<"0", "1", "2", "3", "4", "5", "6", "7", "8", "9">>

IsDigit(ch) == \E d \in 1..10 : Digits[d] = ch

DigitValue(ch) == (CHOOSE d \in 1..10 : Digits[d] = ch) - 1

InitArrayName == <<".", "i", "n", "i", "t", "_", "a", "r", "r", "a", "y">>

FiniArrayName == <<".", "f", "i", "n", "i", "_", "a", "r", "r", "a", "y">>

PreinitArrayName ==
  <<".", "p", "r", "e", "i", "n", "i", "t", "_", "a", "r", "r", "a", "y">>

\* The suffixes of the input sections' names, each with the number it
\* spells.
Suffixes ==
  { <<<<>>, -1>>,
    <<<<".", "1", "0", "0">>, 100>>,
    <<<<".", "3", "0", "0">>, 300>>,
    <<<<".", "0", "7">>, 7>>,
    <<<<".", "7", "0", "0", "0", "0">>, 70000>> }

\* The suffixes of the members of the output section that is not sorted.
OtherSuffixes ==
  { <<<<".", "3", "0", "0">>, 300>>, <<<<".", "1", "0", "0">>, 100>> }

\* The lists of suffixes of the members of .fini_array.
FiniSuffixLists ==
  { <<>>,
    <<<<<<".", "3", "0", "0">>, 300>>, <<<<>>, -1>>,
      <<<<".", "1", "0", "0">>, 100>>>> }

SuffixLists(sfx) ==
  UNION {[1..n -> sfx] : n \in 0..MaxInitMembers}

Members(base, list) ==
  [i \in 1..Len(list) |->
     [name |-> base \o list[i][1], n |-> list[i][2], pos |-> i]]

\* std::stoi of a sequence of digits
RECURSIVE stoi(_)
stoi(ds) ==
  IF ds = <<>> THEN 0
  ELSE 10 * stoi(SubSeq(ds, 1, Len(ds) - 1)) + DigitValue(ds[Len(ds)])

ArrayDot == <<"_", "a", "r", "r", "a", "y", ".">>

\* The regular expression _array\.(\d+)$ matches the name from position i.
MatchesAt(name, i) ==
  /\ i + Len(ArrayDot) <= Len(name)
  /\ SubSeq(name, i, i + Len(ArrayDot) - 1) = ArrayDot
  /\ \A k \in (i + Len(ArrayDot))..Len(name) : IsDigit(name[k])

\* The same, with priority 0 for a name the expression does not match.
get_priority_or_zero(name) ==
  IF \E i \in 1..Len(name) : MatchesAt(name, i)
  THEN LET i == CHOOSE i \in 1..Len(name) : MatchesAt(name, i)
       IN stoi(SubSeq(name, i + Len(ArrayDot), Len(name)))
  ELSE 0

\* passes.cc 466-473
get_priority(name) ==
  IF \E i \in 1..Len(name) : MatchesAt(name, i)
  THEN LET i == CHOOSE i \in 1..Len(name) : MatchesAt(name, i)
       IN stoi(SubSeq(name, i + Len(ArrayDot), Len(name)))
  ELSE 65536

\* The comparison of passes.cc 478-479
LessPriority(a, b) == get_priority(a.name) < get_priority(b.name)

\* m is placed after the members of the sorted list it is not less than.
InsertMember(sorted, m) ==
  LET k == Cardinality({i \in 1..Len(sorted) : ~LessPriority(m, sorted[i])})
  IN SubSeq(sorted, 1, k) \o <<m>> \o SubSeq(sorted, k + 1, Len(sorted))

\* sort(vec, less): a stable sort
RECURSIVE sort(_)
sort(ms) ==
  IF ms = <<>> THEN <<>>
  ELSE InsertMember(sort(SubSeq(ms, 1, Len(ms) - 1)), ms[Len(ms)])

InitFiniInputs ==
  {<<[name |-> InitArrayName, members |-> Members(InitArrayName, l1)],
     [name |-> PreinitArrayName, members |-> Members(PreinitArrayName, l2)],
     [name |-> FiniArrayName, members |-> Members(FiniArrayName, l3)]>> :
     <<l1, l2, l3>> \in SuffixLists(Suffixes) \X SuffixLists(OtherSuffixes)
                          \X FiniSuffixLists}

InitInitFini ==
  /\ pc = "sort_init_fini"
  /\ output_sections \in InitFiniInputs
  /\ errors = <<>> /\ synthetic = <<>> /\ arg_entry = <<>>
  /\ IdleBin /\ IdleCtx
  /\ IdleResolve /\ IdleComdat /\ IdleSizes /\ IdleLayout /\ IdleRank
  /\ IdleDynamic

not_init_fini == <<resolve_vars, comdat_vars, size_vars, layout_vars,
                   rank_vars, dyn_vars, errors, synthetic, arg_entry,
                   bin_vars, ctx>>

IsInitFini(osec) == osec.name = InitArrayName \/ osec.name = FiniArrayName

\* passes.cc 475-481
SortInitFini ==
  /\ pc = "sort_init_fini"
  /\ output_sections' =
       [i \in DOMAIN output_sections |->
          IF IsInitFini(output_sections[i])
          THEN [output_sections[i] EXCEPT !.members = sort(@)]
          ELSE output_sections[i]]
  /\ pc' = "sorted"
  /\ UNCHANGED not_init_fini

NextInitFini == SortInitFini

SpecInitFini == InitInitFini /\ [][NextInitFini]_vars

\* The priority of a member: the number of its suffix, 65536 without one.
SuffixPriority(m) == IF m.n = -1 THEN 65536 ELSE m.n

\* C17: after sort_init_fini the members of .init_array and of .fini_array
\* are in non-decreasing order of the number of their suffix, a member
\* without one counting as 65536; the members of every other output section
\* are in the order they had.
C17_InitFiniInPriorityOrder ==
  pc = "sorted" =>
    \A s \in DOMAIN output_sections :
      LET ms == output_sections[s].members
      IN \A i, j \in DOMAIN ms :
           i < j => IF IsInitFini(output_sections[s])
                    THEN SuffixPriority(ms[i]) <= SuffixPriority(ms[j])
                    ELSE ms[i].pos < ms[j].pos

\* .init_array was given .init_array.300, .init_array and .init_array.100
\* in this order and holds them as .100, .300, no suffix, while the members
\* .preinit_array.300, .preinit_array.100 of .preinit_array stayed as they
\* were.
C17_Witness ==
  /\ pc = "sorted"
  /\ LET ms == output_sections[1].members
     IN /\ Len(ms) = 3
        /\ <<ms[1].n, ms[2].n, ms[3].n>> = <<100, 300, -1>>
        /\ <<ms[1].pos, ms[2].pos, ms[3].pos>> = <<3, 1, 2>>
  /\ LET os == output_sections[2].members
     IN Len(os) = 2 /\ <<os[1].n, os[2].n>> = <<300, 100>>

(***************************************************************************)
(* fix_synthetic_symbols: __start_<name> and __stop_<name>                 *)
(*                                                                         *)
(* ctx.chunks after set_osec_offsets, and the symbols create_internal_file *)
(* made for them.  The symbol "__start_" + name is the pair of the prefix  *)
(* and the name.                                                           *)
(***************************************************************************)

\* The most chunks of ctx.chunks.
MaxSynChunks == 3

Foo == <<"f", "o", "o">>

Bar2 == <<"b", "a", "r", "_", "2">>

DotGot == <<".", "g", "o", "t">>

SecNames == {Foo, Bar2, DotGot}

IdentStart == {"a", "b", "f", "g", "o", "r", "t", "_"}

\* The name matches [a-zA-Z_][a-zA-Z0-9_]*.
is_c_identifier(name) ==
  /\ name # <<>>
  /\ name[1] \in IdentStart
  /\ \A k \in 2..Len(name) : name[k] \in IdentStart \/ IsDigit(name[k])

StartStopSyms ==
  {<<p, n>> : p \in {"__start_", "__stop_"},
              n \in {n \in SecNames : is_c_identifier(n)}}

\* An output section is known by its name and its flags ("a" read-only,
\* "aw" writable); read-only chunks are ranked before writable ones.
SynShapes == SecNames \X {"a", "aw"} \X {8, 16}

SynChunkLists ==
  {l \in UNION {[1..n -> SynShapes] : n \in 0..MaxSynChunks} :
     \A i, j \in DOMAIN l :
       i < j => /\ <<l[i][1], l[i][2]>> # <<l[j][1], l[j][2]>>
                /\ ~(l[i][2] = "aw" /\ l[j][2] = "a")}

RECURSIVE SizesBefore(_, _)
SizesBefore(l, i) == IF i <= 1 THEN 0 ELSE SizesBefore(l, i - 1) + l[i - 1][3]

SynChunks(l) ==
  [i \in DOMAIN l |->
     [name |-> l[i][1], sh_flags |-> l[i][2], shndx |-> i,
      sh_addr |-> 4096 + SizesBefore(l, i), sh_size |-> l[i][3]]]

NullSymbol == [file |-> "none", shndx |-> 0, value |-> 0]

\* passes.cc 331-342: the symbol made by add
AddedSymbol == [file |-> "internal", shndx |-> 1, value |-> 0]

\* passes.cc 375-381
create_internal_file(cs) ==
  [s \in StartStopSyms |->
     IF \E i \in DOMAIN cs : cs[i].name = s[2] THEN AddedSymbol
     ELSE NullSymbol]

InitStartStop ==
  /\ pc = "fix_synthetic_symbols"
  /\ \E l \in SynChunkLists : chunks = SynChunks(l)
  /\ synthetic = create_internal_file(chunks)
  /\ idx = 1
  /\ image_base = <<>> /\ filesize = <<>> /\ cursor = <<>>
  /\ errors = <<>> /\ output_sections = <<>> /\ arg_entry = <<>>
  /\ IdleBin /\ IdleCtx
  /\ IdleResolve /\ IdleComdat /\ IdleSizes /\ IdleRank /\ IdleDynamic

not_start_stop == <<resolve_vars, comdat_vars, size_vars, rank_vars,
                    dyn_vars, image_base, filesize, cursor, chunks,
                    errors, output_sections, arg_entry, bin_vars, ctx>>

\* passes.cc 956-961
start(s, chunk) == [s EXCEPT !.shndx = chunk.shndx, !.value = chunk.sh_addr]

\* passes.cc 963-968
stop(s, chunk) == [s EXCEPT !.shndx = chunk.shndx,
                            !.value = chunk.sh_addr + chunk.sh_size]

\* passes.cc 1049-1059: one turn of the loop
FixStartStop ==
  /\ pc = "fix_synthetic_symbols"
  /\ idx <= Len(chunks)
  /\ LET chunk == chunks[idx]
         sym1 == <<"__start_", chunk.name>>
         sym2 == <<"__stop_", chunk.name>>
     IN synthetic' =
          IF is_c_identifier(chunk.name)
          THEN [synthetic EXCEPT ![sym1] = start(@, chunk),
                                 ![sym2] = stop(@, chunk)]
          ELSE synthetic
  /\ idx' = idx + 1
  /\ UNCHANGED pc
  /\ UNCHANGED not_start_stop

FixStartStopDone ==
  /\ pc = "fix_synthetic_symbols"
  /\ idx > Len(chunks)
  /\ pc' = "fixed"
  /\ UNCHANGED <<idx, synthetic>>
  /\ UNCHANGED not_start_stop

NextStartStop == FixStartStop \/ FixStartStopDone

SpecStartStop == InitStartStop /\ [][NextStartStop]_vars

\* __start_ and __stop_ of the chunk's name bound the chunk.
BoundsChunk(chunk) ==
  /\ synthetic[<<"__start_", chunk.name>>].value = chunk.sh_addr
  /\ synthetic[<<"__stop_", chunk.name>>].value = chunk.sh_addr + chunk.sh_size
  /\ synthetic[<<"__start_", chunk.name>>].shndx = chunk.shndx
  /\ synthetic[<<"__stop_", chunk.name>>].shndx = chunk.shndx

\* C18: after fix_synthetic_symbols, for every chunk whose name is a C
\* identifier __start_<name> is its sh_addr and __stop_<name> its sh_addr +
\* sh_size, both with the chunk's shndx; for a C identifier that names no
\* chunk both symbols have the value 0.
C18_StartStopBoundEveryChunk ==
  pc = "fixed" =>
    /\ \A i \in DOMAIN chunks :
         is_c_identifier(chunks[i].name) => BoundsChunk(chunks[i])
    /\ \A s \in StartStopSyms :
         (\A i \in DOMAIN chunks : chunks[i].name # s[2])
           => synthetic[s].value = 0

\* A symbol that got a copy relocation names n as an alias.
IsCopyrelAlias(n) ==
  \E m \in DynNames :
    "NEEDS_COPYREL" \in dyn_in.symbols[m].needs /\ n \in find_aliases(m)

\* C19: after scan_rels every symbol of the object or of the shared object
\* that is imported or exported has a dynsym entry, and a symbol that is
\* neither imported nor exported and is no alias of a copy-relocated symbol
\* has none.
C19_DynsymIffImportedOrExported ==
  pc = "scanned" =>
    \A n \in DynNames :
      /\ dsyms[n].file # "none" /\ (dsyms[n].is_imported \/ dsyms[n].is_exported)
           => InDynsym(n)
      /\ ~dsyms[n].is_imported /\ ~dsyms[n].is_exported /\ ~IsCopyrelAlias(n)
           => ~InDynsym(n)

\* foo, a function of the shared object that the object calls and never
\* defines, is imported and in dynsym, without a flag of its own in a PIC
\* output or with a PLT entry; the hidden bar of the object, which needs a
\* GOT entry, is neither imported nor exported and not in dynsym.
C19_Witness ==
  /\ pc = "scanned"
  /\ dsyms["foo"].file = "c.so" /\ dyn_in.symbols["foo"].in_obj
  /\ dyn_in.symbols["foo"].needs \in {{}, {"NEEDS_PLT"}}
  /\ dsyms["foo"].is_imported /\ InDynsym("foo")
  /\ dsyms["bar"].file = "a.o" /\ dsyms["bar"].visibility = "HIDDEN"
  /\ dyn_in.symbols["bar"].needs = {"NEEDS_GOT"}
  /\ ~dsyms["bar"].is_imported /\ ~dsyms["bar"].is_exported
  /\ Contains(tables.got, "bar") /\ ~InDynsym("bar")

\* The name given by --entry is defined by archive members only and no
\* object that is alive references it.
EntryOnlyInArchive ==
  /\ arg_entry \in Names
  /\ Definers(arg_entry) # {}
  /\ Definers(arg_entry) \subseteq ArchiveMembers
  /\ \A f \in ObjFiles : is_alive[f] => arg_entry \notin Refs(f)

\* C20: the entry symbol is a root of the object sweep: when the name given
\* by --entry is defined by an archive member only and no alive object
\* references it, the member in which it is resolved is alive after the
\* sweep.
C20_EntryIsLivenessRoot ==
  pc = "sweep_objs" /\ EntryOnlyInArchive => is_alive[BestDef(arg_entry)]

\* The members of a copy-relocation section that hold the slot of n: n
\* itself, or a symbol placed before it of which n is an alias.
SlotHolders(section, n) ==
  {i \in 1..Len(section) : section[i] = n \/ n \in find_aliases(section[i])}

\* C21: when scan_rels ends, every symbol that needed a copy relocation is
\* imported and exported and has its slot in exactly one section: in
\* .dynbss.rel.ro when the shared object holds it in a read-only segment,
\* in .dynbss otherwise.
C21_CopyrelImportedExportedPlacedOnce ==
  pc = "scanned" =>
    \A n \in DynNames :
      "NEEDS_COPYREL" \in dyn_in.symbols[n].needs =>
        /\ dsyms[n].is_imported /\ dsyms[n].is_exported /\ dsyms[n].has_copyrel
        /\ LET own == IF is_readonly(n) THEN tables.dynbss_relro ELSE tables.dynbss
               other == IF is_readonly(n) THEN tables.dynbss ELSE tables.dynbss_relro
           IN /\ Cardinality(SlotHolders(own, n)) = 1
              /\ SlotHolders(other, n) = {}
              /\ \A i \in SlotHolders(own, n) : dsyms[own[i]].value = dsyms[n].value
        /\ dsyms[n].copyrel_readonly = is_readonly(n)

\* foo is in .dynbss.rel.ro and bar, which is no alias of it, in .dynbss.
C21_Witness ==
  /\ pc = "scanned"
  /\ ~dyn_in.aliased
  /\ tables.dynbss_relro = <<"foo">> /\ tables.dynbss = <<"bar">>
  /\ dsyms["foo"].is_exported /\ dsyms["bar"].is_exported
  /\ dsyms["foo"].copyrel_readonly /\ ~dsyms["bar"].copyrel_readonly

(***************************************************************************)
(* scan_rels: the allocation loop taken a second time                      *)
(***************************************************************************)

\* One more turn of the loop at 591-658 after the pass, for any symbol
\* that a file owns, in any order and any number of times.
AssignAgain ==
  /\ pc \in {"scanned", "scanned_again"}
  /\ \E n \in DynNames : dsyms[n].file # "none" /\ AssignSlots(n)
  /\ pc' = "scanned_again"
  /\ UNCHANGED <<dyn_in, agg, errors>>
  /\ UNCHANGED not_dynamic

NextRescan == NextDynamic \/ AssignAgain

SpecRescan == InitDynamic /\ [][NextRescan]_vars

Count(seq, x) == Cardinality({i \in 1..Len(seq) : seq[i] = x})

\* The GOT, PLT, TLS and copy-relocation slots.
Slots(t) == <<t.got, t.plt, t.pltgot, t.gottp, t.tlsgd, t.tlsdesc, t.tlsld,
              t.dynbss, t.dynbss_relro>>

SlotsGivenOnce ==
  pc \in {"scanned", "scanned_again"} =>
    /\ \A n \in DynNames :
         /\ dsyms[n].flags = {}
         /\ Count(tables.got, n) <= 1
         /\ Count(tables.plt \o tables.pltgot, n) <= 1
         /\ Count(tables.gottp, n) <= 1
         /\ Count(tables.tlsgd, n) <= 1
         /\ Count(tables.tlsdesc, n) <= 1
         /\ Count(tables.dynbss \o tables.dynbss_relro, n) <= 1
    /\ tables.tlsld <= 1

NumShards == 2

\* The most objects of ctx.objs.
MaxBinObjs == 4

\* The output sections.
NumOsec == 2

\* The sections of one file: a null entry, a dead section, or an alive
\* section of output section 1 or 2.
NullSec == [null |-> TRUE, is_alive |-> FALSE, output_section |-> 1]
Sec(alive, osec) == [null |-> FALSE, is_alive |-> alive, output_section |-> osec]

FileSections ==
  { <<Sec(TRUE, 1), Sec(TRUE, 1)>>,
    <<Sec(TRUE, 2), Sec(TRUE, 1)>>,
    <<Sec(FALSE, 1), Sec(TRUE, 2)>>,
    <<NullSec, Sec(TRUE, 1), Sec(TRUE, 2)>> }

\* passes.cc 244-257 without the remaining span.
RECURSIVE split_whole_units(_, _)
split_whole_units(input, unit) ==
  IF Len(input) >= unit
  THEN <<SubSeq(input, 1, unit)>>
         \o split_whole_units(SubSeq(input, unit + 1, Len(input)), unit)
  ELSE <<>>

\* passes.cc 244-257
RECURSIVE split(_, _)
split(input, unit) ==
  IF Len(input) >= unit
  THEN <<SubSeq(input, 1, unit)>> \o split(SubSeq(input, unit + 1, Len(input)), unit)
  ELSE IF input # <<>> THEN <<input>> ELSE <<>>

\* passes.cc 273
Unit == (Len(objs) + NumShards - 1) \div NumShards

Slices == split(objs, Unit)

InitBin ==
  /\ pc = "bin_sections"
  /\ \E n \in 0..MaxBinObjs :
       /\ objs = [i \in 1..n |-> i]
       /\ sections \in [1..n -> FileSections]
  /\ groups = <<>>
  /\ output_sections = [j \in 1..NumOsec |-> [idx |-> j, members |-> <<>>]]
  /\ todo = {}
  /\ elf_syms = <<>> /\ arg_undefined = <<>> /\ arg_require_defined = <<>>
  /\ dsos = <<>> /\ is_alive = <<>> /\ sym = <<>> /\ feed = <<>>
  /\ errors = <<>> /\ synthetic = <<>> /\ arg_entry = <<>> /\ IdleCtx
  /\ IdleComdat /\ IdleSizes /\ IdleLayout /\ IdleRank /\ IdleDynamic

not_bin == <<elf_syms, arg_undefined, arg_require_defined, dsos, is_alive,
             sym, feed, comdat_vars, size_vars, layout_vars, rank_vars,
             dyn_vars, errors, synthetic, arg_entry, ctx>>

\* passes.cc 270-271
BinNothing ==
  /\ pc = "bin_sections"
  /\ objs = <<>>
  /\ pc' = "binned"
  /\ UNCHANGED <<objs, sections, groups, output_sections, todo>>
  /\ UNCHANGED not_bin

\* passes.cc 273-281
SplitObjs ==
  /\ pc = "bin_sections"
  /\ objs # <<>>
  /\ groups' = [i \in 1..Len(Slices) |-> [j \in 1..NumOsec |-> <<>>]]
  /\ todo' = 1..Len(Slices)
  /\ pc' = "bin_shards"
  /\ UNCHANGED <<objs, sections, output_sections>>
  /\ UNCHANGED not_bin

\* The alive sections of file, from index k on, that go to output section j.
RECURSIVE AliveOf(_, _, _)
AliveOf(file, k, j) ==
  IF k > Len(sections[file]) THEN <<>>
  ELSE LET isec == sections[file][k]
       IN (IF ~isec.null /\ isec.is_alive /\ isec.output_section = j
           THEN <<<<file, k>>>> ELSE <<>>) \o AliveOf(file, k + 1, j)

\* The same for the files of a slice, in their order.
RECURSIVE AliveOfFiles(_, _)
AliveOfFiles(files, j) ==
  IF files = <<>> THEN <<>>
  ELSE AliveOf(Head(files), 1, j) \o AliveOfFiles(Tail(files), j)

\* passes.cc 283-288: the task of slice i.
BinShard(i) ==
  /\ pc = "bin_shards"
  /\ i \in todo
  /\ groups' = [groups EXCEPT
                  ![i] = [j \in 1..NumOsec |-> AliveOfFiles(Slices[i], j)]]
  /\ todo' = todo \ {i}
  /\ UNCHANGED <<pc, objs, sections, output_sections>>
  /\ UNCHANGED not_bin

\* passes.cc 290-294: the first parallel_for has joined; the sizes are
\* summed for the reserve calls.
JoinShards ==
  /\ pc = "bin_shards"
  /\ todo = {}
  /\ todo' = 1..NumOsec
  /\ pc' = "append"
  /\ UNCHANGED <<objs, sections, groups, output_sections>>
  /\ UNCHANGED not_bin

RECURSIVE GroupsOf(_, _)
GroupsOf(i, j) ==
  IF i > Len(groups) THEN <<>> ELSE groups[i][j] \o GroupsOf(i + 1, j)

\* passes.cc 296-300: the task of output section j.
AppendGroups(j) ==
  /\ pc = "append"
  /\ j \in todo
  /\ output_sections' =
       [output_sections EXCEPT ![j].members = @ \o GroupsOf(1, j)]
  /\ todo' = todo \ {j}
  /\ UNCHANGED <<pc, objs, sections, groups>>
  /\ UNCHANGED not_bin

JoinAppend ==
  /\ pc = "append"
  /\ todo = {}
  /\ pc' = "binned"
  /\ UNCHANGED <<objs, sections, groups, output_sections, todo>>
  /\ UNCHANGED not_bin

NextBin ==
  \/ BinNothing
  \/ SplitObjs
  \/ \E i \in 1..MaxBinObjs : BinShard(i)
  \/ JoinShards
  \/ \E j \in 1..NumOsec : AppendGroups(j)
  \/ JoinAppend

SpecBin == InitBin /\ [][NextBin]_vars

\* The input sections of output section j: the alive sections of the
\* objects that go to j.
BinnedTo(j) ==
  {<<f, k>> \in (1..Len(objs)) \X (1..3) :
     /\ k <= Len(sections[f])
     /\ ~sections[f][k].null /\ sections[f][k].is_alive
     /\ sections[f][k].output_section = j}

\* C23: after bin_sections the members of every output section are
\* exactly its alive input sections, each once, in the order of (position
\* of the file in ctx.objs, index of the section in the file), whatever
\* the interleaving of the tasks and whether the objects are fewer than,
\* as many as or more than the shards.
C23_MembersInFileOrder ==
  pc = "binned" =>
    \A j \in 1..NumOsec :
      LET ms == output_sections[j].members
      IN /\ {ms[i] : i \in 1..Len(ms)} = BinnedTo(j)
         /\ Len(ms) = Cardinality(BinnedTo(j))
         /\ \A a, b \in 1..Len(ms) :
              a < b => \/ ms[a][1] < ms[b][1]
                       \/ ms[a][1] = ms[b][1] /\ ms[a][2] < ms[b][2]

\* More objects than shards, in slices of two objects and a last slice of
\* one, and an output section with sections of objects of both slices.
C23_Witness ==
  /\ pc = "binned"
  /\ Len(objs) > NumShards
  /\ Len(objs) % Unit # 0
  /\ Len(groups) > 1
  /\ \E a, b \in 1..Len(output_sections[1].members) :
       /\ output_sections[1].members[a][1] = 1
       /\ output_sections[1].members[b][1] = Len(objs)

\* C24: after compute_section_sizes, for every non-empty output section and
\* every schedule of the scan, each member's offset is a multiple of its
\* sh_addralign, the members lie at increasing offsets without overlap,
\* sh_size is the end of the last member and sh_addralign the greatest
\* sh_addralign of the members.
C24_MembersAlignedAndDisjoint ==
  pc = "sized" /\ members # <<>> =>
    /\ \A i \in 1..Len(members) : isec_offset[i] % members[i][2] = 0
    /\ \A i \in 1..(Len(members) - 1) :
         isec_offset[i] + members[i][1] <= isec_offset[i + 1]
    /\ osec_shdr.sh_size =
         isec_offset[Len(members)] + members[Len(members)][1]
    /\ osec_shdr.sh_addralign = MaxAlign(members, Len(members))

\* A schedule with pre-scanned sub-ranges has given a member another
\* offset than the sequential layout does.
C24_Witness ==
  /\ pc = "sized"
  /\ \E r \in DOMAIN pre_sum : pre_sum[r] # <<>>
  /\ \E i \in 1..Len(members) : isec_offset[i] # SeqOffsetOf(members, i)

\* C25: after set_osec_offsets the sh_addr of every alloc chunk, TBSS
\* chunks included, is a multiple of its sh_addralign; an alloc chunk that
\* separate_page sets apart from the chunk before it has a sh_addr that is
\* a multiple of the page size; no address is below image_base; and of two
\* alloc chunks that are not TBSS the earlier ends at or before the sh_addr
\* of the later.
C25_AddressesAlignedAndDisjoint ==
  pc = "laid_out" =>
    /\ \A i \in 1..Len(chunks) :
         chunks[i].alloc =>
           /\ chunks[i].sh_addr % chunks[i].sh_addralign = 0
           /\ chunks[i].sh_addr >= image_base
           /\ i > 1 /\ separate_page(chunks[i - 1], chunks[i])
                => chunks[i].sh_addr % page_size = 0
    /\ \A a, b \in 1..Len(chunks) :
         /\ a < b /\ chunks[a].alloc /\ chunks[b].alloc
         /\ ~is_tbss(chunks[a]) /\ ~is_tbss(chunks[b])
         => chunks[a].sh_addr + chunks[a].sh_size <= chunks[b].sh_addr

\* A TBSS chunk was moved up to its alignment behind .tdata, the writable
\* chunk after it starts a new page, and the TBSS chunk reaches into it.
C25_Witness ==
  /\ pc = "laid_out"
  /\ Len(chunks) = 3
  /\ ~is_tbss(chunks[1]) /\ is_tbss(chunks[2]) /\ ~is_tbss(chunks[3])
  /\ chunks[2].sh_addr > chunks[1].sh_addr + chunks[1].sh_size
  /\ separate_page(chunks[2], chunks[3])
  /\ chunks[3].sh_addr % page_size = 0
  /\ chunks[3].sh_addr > image_base
  /\ chunks[2].sh_addr + chunks[2].sh_size > chunks[3].sh_addr

\* C26: after set_osec_offsets a NOBITS chunk, TBSS or not, has the file
\* cursor as sh_offset and does not advance it; the sh_offset of any other
\* chunk is the least value from the cursor on that is congruent to its
\* sh_addr modulo the page size; of two chunks that are not NOBITS the
\* earlier ends in the file at or before the sh_offset of the later; and
\* the value returned is the file end of the last chunk that is not NOBITS.
C26_FileOffsetsDisjoint ==
  pc = "laid_out" =>
    /\ \A i \in 1..Len(chunks) :
         IF chunks[i].sh_type = "NOBITS"
         THEN chunks[i].sh_offset = FileEndBefore(i)
         ELSE /\ chunks[i].sh_offset >= FileEndBefore(i)
              /\ chunks[i].sh_offset - FileEndBefore(i) < page_size
              /\ Congruent(chunks[i])
    /\ \A a, b \in 1..Len(chunks) :
         /\ a < b /\ chunks[a].sh_type # "NOBITS" /\ chunks[b].sh_type # "NOBITS"
         => chunks[a].sh_offset + chunks[a].sh_size <= chunks[b].sh_offset
    /\ filesize = FileEndBefore(Len(chunks) + 1)

\* A NOBITS chunk lies between two chunks with contents; the second of
\* them leaves a gap in the file to reach the offset congruent to its
\* address, and the file ends with it.
C26_Witness ==
  /\ pc = "laid_out"
  /\ Len(chunks) = 3
  /\ chunks[1].sh_type # "NOBITS" /\ chunks[2].sh_type = "NOBITS"
  /\ chunks[3].sh_type # "NOBITS"
  /\ chunks[2].sh_offset = chunks[1].sh_offset + chunks[1].sh_size
  /\ chunks[3].sh_offset > chunks[2].sh_offset
  /\ filesize = chunks[3].sh_offset + chunks[3].sh_size

(***************************************************************************)
(* fix_synthetic_symbols: --defsym                                         *)
(*                                                                         *)
(* ctx.arg.defsyms is the list of the pairs <<name, expr>> of the command      *)
(* line, names and expressions being strings of characters.  The symbols   *)
(* are those create_internal_file made for the names, a symbol c that an   *)
(* object defines and the symbols nothing defines.                         *)
(***************************************************************************)

\* The most --defsym options of the command line.
MaxDefsyms == 2

DefsymNames == {<<"a">>, <<"b">>, <<"d">>}

Hex10 == <<"0", "x", "1", "0">>

Dec12 == <<"1", "2">>

BareHexPrefix == <<"0", "x">>

DefsymExprs ==
  DefsymNames \cup {<<"c">>, <<"u">>, BareHexPrefix, Hex10, Dec12, <<"0", "X", "f">>}

DefsymSyms == DefsymNames \cup {<<"c">>, <<"u">>, BareHexPrefix}

DefsymLists ==
  {l \in UNION {[1..n -> DefsymNames \X DefsymExprs] : n \in 0..MaxDefsyms} :
     \A i, j \in DOMAIN l : i < j => l[i][1] # l[j][1]}

HexLetters == <<"a", "b", "c", "d", "e", "f">>

IsHexDigit(ch) == IsDigit(ch) \/ \E d \in 1..6 : HexLetters[d] = ch

HexDigitValue(ch) ==
  IF IsDigit(ch) THEN DigitValue(ch)
  ELSE 9 + (CHOOSE d \in 1..6 : HexLetters[d] = ch)

\* The length of the longest prefix of s made of hexadecimal digits.
RECURSIVE HexRun(_)
HexRun(s) ==
  IF s = <<>> \/ ~IsHexDigit(s[1]) THEN 0 ELSE 1 + HexRun(Tail(s))

RECURSIVE HexValue(_)
HexValue(ds) ==
  IF ds = <<>> THEN 0
  ELSE 16 * HexValue(SubSeq(ds, 1, Len(ds) - 1)) + HexDigitValue(ds[Len(ds)])

starts_with_0x(s) == Len(s) >= 2 /\ s[1] = "0" /\ s[2] \in {"x", "X"}

\* std::stoull(s, &nread, 16) of a string that starts with 0x: the pair of
\* the value and nread.  The prefix is taken only when a digit follows it;
\* otherwise the 0 alone is the number.
stoull16(s) ==
  LET n == HexRun(SubSeq(s, 3, Len(s)))
  IN IF n = 0 THEN <<0, 1>>
     ELSE <<HexValue(SubSeq(s, 3, 2 + n)), 2 + n>>

\* passes.cc 302-314: <<>> is the empty optional
parse_defsym_addr(s) ==
  IF starts_with_0x(s)
  THEN IF Len(s) # stoull16(s)[2] THEN <<>> ELSE <<stoull16(s)[1]>>
  ELSE IF \A k \in DOMAIN s : IsDigit(s[k]) THEN <<stoi(s)>>
  ELSE <<>>

\* elf.h: the section index of an absolute symbol
SHN_ABS == 65521

\* A pointer to an input section is <<>> when it is null and the one-element
\* sequence of the section otherwise.
NoSection == <<>>

UndefinedSymbol ==
  [file |-> "none", value |-> 0, visibility |-> "STV_DEFAULT",
   shndx |-> 0, input_section |-> NoSection]

\* passes.cc 383-395: the symbol of the internal file for a --defsym
DefsymSymbol(expr) ==
  [file |-> "internal", value |-> 0, visibility |-> "STV_DEFAULT",
   shndx |-> IF parse_defsym_addr(expr) = <<>> THEN 1 ELSE SHN_ABS,
   input_section |-> NoSection]

\* The symbol c of an object: absolute, or at the offset 8 of an input
\* section that set_osec_offsets placed at 8192 in the output section 2.
ObjectSymbols ==
  {[file |-> "a.o", value |-> 8, visibility |-> v, shndx |-> x[1],
    input_section |-> x[2]] :
     v \in {"STV_DEFAULT", "STV_HIDDEN", "STV_PROTECTED"},
     x \in {<<SHN_ABS, NoSection>>, <<3, <<[addr |-> 8192, shndx |-> 2]>>>>}}

\* Symbol::get_addr
get_addr(s) ==
  IF s.input_section = NoSection THEN s.value
  ELSE s.input_section[1].addr + s.value

InitDefsym ==
  /\ pc = "fix_synthetic_symbols"
  /\ \E l \in DefsymLists : ctx = [arg |-> [defsyms |-> l]]
  /\ \E c \in ObjectSymbols :
       synthetic =
         [n \in DefsymSyms |->
            IF \E i \in DOMAIN ctx.arg.defsyms : ctx.arg.defsyms[i][1] = n
            THEN DefsymSymbol(
                   ctx.arg.defsyms[CHOOSE i \in DOMAIN ctx.arg.defsyms :
                                 ctx.arg.defsyms[i][1] = n][2])
            ELSE IF n = <<"c">> THEN c
            ELSE UndefinedSymbol]
  /\ idx = 1
  /\ errors = {}
  /\ chunks = <<>> /\ image_base = <<>> /\ filesize = <<>> /\ cursor = <<>>
  /\ output_sections = <<>> /\ arg_entry = <<>>
  /\ IdleBin
  /\ IdleResolve /\ IdleComdat /\ IdleSizes /\ IdleRank /\ IdleDynamic

not_defsym == <<resolve_vars, comdat_vars, size_vars, rank_vars,
                dyn_vars, image_base, filesize, cursor, chunks,
                output_sections, arg_entry, bin_vars, ctx>>

\* passes.cc 1062-1081: one turn of the loop
FixDefsym ==
  /\ pc = "fix_synthetic_symbols"
  /\ idx <= Len(ctx.arg.defsyms)
  /\ LET defsym == ctx.arg.defsyms[idx]
         s == [synthetic[defsym[1]] EXCEPT !.input_section = NoSection]
         addr == parse_defsym_addr(defsym[2])
         sym2 == synthetic[defsym[2]]
     IN IF addr # <<>>
        THEN /\ synthetic' = [synthetic EXCEPT ![defsym[1]] =
                                [s EXCEPT !.value = addr[1]]]
             /\ UNCHANGED errors
        ELSE IF sym2.file = "none"
        THEN /\ errors' = errors \cup {<<"--defsym: undefined symbol", defsym[2]>>}
             /\ synthetic' = [synthetic EXCEPT ![defsym[1]] = s]
        ELSE /\ synthetic' = [synthetic EXCEPT ![defsym[1]] =
                                [s EXCEPT !.value = get_addr(sym2),
                                          !.visibility = sym2.visibility,
                                          !.shndx =
                                            IF sym2.input_section # NoSection
                                            THEN sym2.input_section[1].shndx
                                            ELSE @]]
             /\ UNCHANGED errors
  /\ idx' = idx + 1
  /\ UNCHANGED pc
  /\ UNCHANGED not_defsym

\* passes.cc 1082: the end of the loop
FixDefsymDone ==
  /\ pc = "fix_synthetic_symbols"
  /\ idx > Len(ctx.arg.defsyms)
  /\ pc' = "fixed"
  /\ UNCHANGED <<idx, synthetic, errors>>
  /\ UNCHANGED not_defsym

NextDefsym == FixDefsym \/ FixDefsymDone

SpecDefsym == InitDefsym /\ [][NextDefsym]_vars

\* C27: after fix_synthetic_symbols, for every --defsym name=expr: when expr
\* is a hexadecimal or decimal literal the value of name is that constant;
\* otherwise, when the symbol expr names is defined, be it the name of
\* another --defsym listed earlier or later, the value of name is the
\* resolved address of that symbol and its visibility that symbol's
\* visibility; when that symbol is undefined an error is reported and the
\* value of name is left as it was.
C27_DefsymBoundToLiteralOrSymbol ==
  pc = "fixed" =>
    \A i \in DOMAIN ctx.arg.defsyms :
      LET name == ctx.arg.defsyms[i][1]
          expr == ctx.arg.defsyms[i][2]
      IN IF parse_defsym_addr(expr) # <<>>
         THEN synthetic[name].value = parse_defsym_addr(expr)[1]
         ELSE IF synthetic[expr].file # "none"
         THEN /\ synthetic[name].value = get_addr(synthetic[expr])
              /\ synthetic[name].visibility = synthetic[expr].visibility
         ELSE /\ <<"--defsym: undefined symbol", expr>> \in errors
              /\ synthetic[name].value = 0

(***************************************************************************)
(* create_internal_file and fix_synthetic_symbols: end, etext, edata and   *)
(* _end, _etext, _edata                                                    *)
(*                                                                         *)
(* ctx.end, ctx.etext, ... are pointers: <<>> when null and <<name>> when  *)
(* they point to the symbol of that name.                                  *)
(***************************************************************************)

Unprefixed == {"end", "etext", "edata"}

Underscored == {"_end", "_etext", "_edata"}

EndSyms == Unprefixed \cup Underscored

\* The symbol of a name that an input file defines when create_internal_file
\* runs.
DefinedByInput == [file |-> "a.o", shndx |-> 5, value |-> 100]

\* A chunk is known by its kind, its flags and its type; the headers come
\* first in ctx.chunks.
EndShapes ==
  {<<"HEADER", {"SHF_ALLOC"}, "SHT_PROGBITS">>}
    \cup ({"REGULAR"} \X {{}, {"SHF_ALLOC"}, {"SHF_ALLOC", "SHF_EXECINSTR"}}
                      \X {"SHT_PROGBITS"})
    \cup ({"REGULAR"} \X {{}, {"SHF_ALLOC"}} \X {"SHT_NOBITS"})

EndChunkLists ==
  {l \in UNION {[1..n -> EndShapes] : n \in 0..MaxSynChunks} :
     \A i, j \in DOMAIN l : i < j /\ l[j][1] = "HEADER" => l[i][1] = "HEADER"}

EndChunks(l) ==
  [i \in DOMAIN l |->
     [kind |-> l[i][1], sh_flags |-> l[i][2], sh_type |-> l[i][3],
      shndx |-> i, sh_addr |-> 4096 + 16 * (i - 1), sh_size |-> 16]]

InitEnd ==
  /\ pc = "create_internal_file"
  /\ \E l \in EndChunkLists : chunks = EndChunks(l)
  /\ \E defined \in SUBSET EndSyms :
       synthetic = [n \in EndSyms |->
                      IF n \in defined THEN DefinedByInput ELSE NullSymbol]
  /\ ctx = [n \in EndSyms |-> <<>>]
  /\ idx = 1
  /\ image_base = <<>> /\ filesize = <<>> /\ cursor = <<>>
  /\ errors = <<>> /\ output_sections = <<>> /\ arg_entry = <<>>
  /\ IdleBin
  /\ IdleResolve /\ IdleComdat /\ IdleSizes /\ IdleRank /\ IdleDynamic

not_end == <<resolve_vars, comdat_vars, size_vars, rank_vars,
             dyn_vars, image_base, filesize, cursor, chunks,
             errors, output_sections, arg_entry, bin_vars>>

HasFileOrNot(n) == FALSE

\* passes.cc 368, 370, 372: get_symbol(ctx, name)->file
HasFile(n) == synthetic[n].file # "none"

\* passes.cc 331-344, 360-362, 368-373
CreateEnds ==
  /\ pc = "create_internal_file"
  /\ LET added == Underscored \cup {n \in Unprefixed : ~HasFile(n)}
     IN /\ synthetic' = [n \in EndSyms |->
                           IF n \in added THEN [synthetic[n] EXCEPT !.shndx = 1]
                           ELSE synthetic[n]]
        /\ ctx' = [n \in EndSyms |-> IF n \in added THEN <<n>> ELSE <<>>]
  /\ pc' = "fix_synthetic_symbols"
  /\ UNCHANGED idx
  /\ UNCHANGED not_end

\* passes.cc 963-968: stop through a pointer that may be null
StopAt(syms, ptr, chunk) ==
  IF ptr # <<>> THEN [syms EXCEPT ![ptr[1]] = stop(@, chunk)] ELSE syms

\* passes.cc 1013-1032: one turn of the loop
FixEnds ==
  /\ pc = "fix_synthetic_symbols"
  /\ idx <= Len(chunks)
  /\ LET chunk == chunks[idx]
         s1 == IF "SHF_ALLOC" \in chunk.sh_flags
               THEN StopAt(StopAt(synthetic, ctx["_end"], chunk),
                           ctx["end"], chunk)
               ELSE synthetic
         s2 == IF "SHF_EXECINSTR" \in chunk.sh_flags
               THEN StopAt(StopAt(s1, ctx["_etext"], chunk),
                           ctx["etext"], chunk)
               ELSE s1
         s3 == IF chunk.sh_type # "SHT_NOBITS" /\ "SHF_ALLOC" \in chunk.sh_flags
               THEN StopAt(StopAt(s2, ctx["_edata"], chunk),
                           ctx["edata"], chunk)
               ELSE s2
     IN synthetic' = IF chunk.kind = "HEADER" THEN synthetic ELSE s3
  /\ idx' = idx + 1
  /\ UNCHANGED <<pc, ctx>>
  /\ UNCHANGED not_end

FixEndsDone ==
  /\ pc = "fix_synthetic_symbols"
  /\ idx > Len(chunks)
  /\ pc' = "fixed"
  /\ UNCHANGED <<idx, synthetic, ctx>>
  /\ UNCHANGED not_end

NextEnd == CreateEnds \/ FixEnds \/ FixEndsDone

SpecEnd == InitEnd /\ [][NextEnd]_vars

IsAllocChunk(chunk) ==
  chunk.kind # "HEADER" /\ "SHF_ALLOC" \in chunk.sh_flags

IsExecChunk(chunk) ==
  chunk.kind # "HEADER" /\ "SHF_EXECINSTR" \in chunk.sh_flags

IsDataChunk(chunk) ==
  IsAllocChunk(chunk) /\ chunk.sh_type # "SHT_NOBITS"

\* The symbol n is at the end of the last chunk of ctx.chunks for which P
\* holds, when there is one.
AtEndOfLast(n, P(_)) ==
  \A i \in DOMAIN chunks :
    P(chunks[i]) /\ (\A j \in DOMAIN chunks : j > i => ~P(chunks[j]))
      => /\ synthetic[n].value = chunks[i].sh_addr + chunks[i].sh_size
         /\ synthetic[n].shndx = chunks[i].shndx

\* C28: end, etext and edata are made by create_internal_file only when no
\* input file defines the name at that point; a symbol of these that an
\* input defines keeps its value and its shndx through
\* fix_synthetic_symbols; _end, _etext and _edata are always made and are
\* at the end of the last alloc, the last executable and the last
\* non-NOBITS alloc chunk that is no header.
C28_UnprefixedEndsOnlyIfUndefined ==
  /\ pc # "create_internal_file" =>
       /\ \A n \in Unprefixed : ctx[n] # <<>> <=> synthetic[n].file = "none"
       /\ \A n \in Underscored : ctx[n] # <<>>
  /\ \A n \in Unprefixed :
       synthetic[n].file # "none" => synthetic[n] = DefinedByInput
  /\ pc = "fixed" =>
       /\ AtEndOfLast("_end", IsAllocChunk)
       /\ AtEndOfLast("_etext", IsExecChunk)
       /\ AtEndOfLast("_edata", IsDataChunk)

\* An object defines end and edata and nothing defines etext; the chunks
\* are a header, .text and .bss: end keeps the value of the object, etext
\* and _etext are at the end of .text, as is _edata, and _end is at the end
\* of .bss.
C28_Witness ==
  /\ pc = "fixed"
  /\ Len(chunks) = 3
  /\ chunks[1].kind = "HEADER"
  /\ chunks[2].sh_flags = {"SHF_ALLOC", "SHF_EXECINSTR"}
  /\ chunks[3].sh_flags = {"SHF_ALLOC"} /\ chunks[3].sh_type = "SHT_NOBITS"
  /\ synthetic["end"] = DefinedByInput /\ ctx["end"] = <<>>
  /\ synthetic["edata"] = DefinedByInput
  /\ ctx["etext"] = <<"etext">>
  /\ synthetic["etext"].value = chunks[2].sh_addr + chunks[2].sh_size
  /\ synthetic["_etext"].value = synthetic["etext"].value
  /\ synthetic["_edata"].value = synthetic["etext"].value
  /\ synthetic["_end"].value = chunks[3].sh_addr + chunks[3].sh_size

(***************************************************************************)
(* parse_symbol_version                                                    *)
(*                                                                         *)
(* The objects a.o and b.o each have two global symbols, whose names in    *)
(* the symbol table may carry a version suffix.  The symbol of a name is   *)
(* shared by the files and is owned by one of them or by a shared object.  *)
(***************************************************************************)

\* The most version definitions of the version script.
MaxVerdefs == 2

VerFiles == {"a.o", "b.o"}

V1 == <<"V", "1">>

V2 == <<"V", "2">>

VerSuffixes == {<<>>, <<"@">> \o V1, <<"@", "@">> \o V2, <<"@">>}

\* The names of the two globals of a file, as they are in its symbol table.
VerSymbolLists ==
  {<<<<"f">> \o s1, <<"g">> \o s2>> : s1 \in VerSuffixes, s2 \in VerSuffixes}

VersionDefinitions == UNION {[1..n -> {V1, V2}] : n \in 0..MaxVerdefs}

\* The position of the first @ of the name, 0 when there is none.
FirstAt(name) ==
  IF \E k \in DOMAIN name : name[k] = "@"
  THEN CHOOSE k \in DOMAIN name :
         name[k] = "@" /\ \A j \in 1..(k - 1) : name[j] # "@"
  ELSE 0

\* The key of the symbol: the name without its version suffix.
BaseName(name) ==
  IF FirstAt(name) = 0 THEN name ELSE SubSeq(name, 1, FirstAt(name) - 1)

\* ObjectFile::symvers: what follows the first @ of the name, a null
\* pointer (<<>>) when the name has none.
symvers(name) ==
  IF FirstAt(name) = 0 THEN <<>>
  ELSE <<SubSeq(name, FirstAt(name) + 1, Len(name))>>

VER_NDX_LAST_RESERVED == 1

VERSYM_HIDDEN == 32768

InitVersion ==
  /\ pc = "parse_symbol_version"
  /\ \E sh \in BOOLEAN, vd \in VersionDefinitions :
       ctx = [arg |-> [shared |-> sh, version_definitions |-> vd]]
  /\ objs \in [VerFiles -> VerSymbolLists]
  /\ \E o \in [{<<"f">>, <<"g">>} -> VerFiles \cup {"c.so"}] :
       sym = [n \in {<<"f">>, <<"g">>} |->
                [file |-> o[n], ver_idx |-> IF n = <<"f">> THEN 1 ELSE 0]]
  /\ todo = [file \in VerFiles |-> 1]
  /\ errors = {}
  /\ elf_syms = <<>> /\ arg_undefined = <<>> /\ arg_require_defined = <<>>
  /\ dsos = <<>> /\ is_alive = <<>> /\ feed = <<>>
  /\ output_sections = <<>> /\ synthetic = <<>> /\ arg_entry = <<>>
  /\ IdleBin
  /\ IdleComdat /\ IdleSizes /\ IdleLayout /\ IdleRank /\ IdleDynamic

not_version == <<elf_syms, arg_undefined, arg_require_defined, dsos,
                 is_alive, feed, objs, comdat_vars, size_vars, layout_vars,
                 rank_vars, dyn_vars, output_sections, synthetic, arg_entry,
                 bin_vars, ctx>>

\* passes.cc 732-733
ParseNotShared ==
  /\ pc = "parse_symbol_version"
  /\ ~ctx.arg.shared
  /\ pc' = "parsed"
  /\ UNCHANGED <<sym, todo, errors>>
  /\ UNCHANGED not_version

\* passes.cc 737-739: the index of the name, 0 when the map has no such key;
\* a later definition of the same name replaces an earlier one
verdefs(ver) ==
  LET vd == ctx.arg.version_definitions
      is == {i \in DOMAIN vd : vd[i] = ver}
  IN IF is = {} THEN 0
     ELSE (CHOOSE i \in is : \A j \in is : j <= i) - 1
            + VER_NDX_LAST_RESERVED + 1

is_default_never(ver) == FALSE

\* passes.cc 752-756
is_default(ver) == ver # <<>> /\ ver[1] = "@"

\* passes.cc 742-768: one turn of the loop of the task of the file
ParseSymver(file) ==
  /\ pc = "parse_symbol_version"
  /\ ctx.arg.shared
  /\ todo[file] <= Len(objs[file])
  /\ LET name == objs[file][todo[file]]
         n == BaseName(name)
         ver0 == symvers(name)
         ver == IF is_default(ver0[1]) THEN Tail(ver0[1]) ELSE ver0[1]
     IN IF ver0 = <<>> \/ sym[n].file # file
        THEN UNCHANGED <<sym, errors>>
        ELSE IF verdefs(ver) = 0
        THEN /\ errors' = errors \cup {<<file, n, ver>>}
             /\ UNCHANGED sym
        ELSE /\ sym' = [sym EXCEPT ![n].ver_idx =
                          IF is_default(ver0[1]) THEN verdefs(ver)
                          ELSE verdefs(ver) + VERSYM_HIDDEN]
             /\ UNCHANGED errors
  /\ todo' = [todo EXCEPT ![file] = @ + 1]
  /\ UNCHANGED pc
  /\ UNCHANGED not_version

\* passes.cc 769: the end of the parallel loop
JoinParse ==
  /\ pc = "parse_symbol_version"
  /\ ctx.arg.shared
  /\ \A file \in VerFiles : todo[file] > Len(objs[file])
  /\ pc' = "parsed"
  /\ UNCHANGED <<sym, todo, errors>>
  /\ UNCHANGED not_version

NextVersion ==
  \/ ParseNotShared
  \/ \E file \in VerFiles : ParseSymver(file)
  \/ JoinParse

SpecVersion == InitVersion /\ [][NextVersion]_vars

\* The version that the suffix of the name of the i-th global of the file
\* names, and whether the suffix has two @.
SuffixVersion(file, i) ==
  LET name == objs[file][i]
      rest == SubSeq(name, FirstAt(name) + 1, Len(name))
  IN IF rest # <<>> /\ rest[1] = "@"
     THEN [ver |-> Tail(rest), default |-> TRUE]
     ELSE [ver |-> rest, default |-> FALSE]

\* The i-th global of the file has a version suffix and the file owns the
\* symbol.
OwnsVersioned(file, i) ==
  /\ FirstAt(objs[file][i]) # 0
  /\ sym[BaseName(objs[file][i])].file = file

VersionsParsed ==
  pc = "parsed" /\ ctx.arg.shared =>
    \A file \in VerFiles :
      \A i \in DOMAIN objs[file] :
        OwnsVersioned(file, i) =>
          LET sv == SuffixVersion(file, i)
              n == BaseName(objs[file][i])
              vd == ctx.arg.version_definitions
          IN IF \E k \in DOMAIN vd : vd[k] = sv.ver
             THEN \E k \in DOMAIN vd :
                    /\ vd[k] = sv.ver
                    /\ sym[n].ver_idx =
                         (k - 1) + VER_NDX_LAST_RESERVED + 1
                           + (IF sv.default THEN 0 ELSE VERSYM_HIDDEN)
             ELSE <<file, n, sv.ver>> \in errors

\* The ver_idx of a symbol changes only with -shared and only for a symbol
\* whose owner names a version definition in the suffix.
VerIdxChangesOnlyIfNamed ==
  \A n \in DOMAIN sym :
    sym'[n].ver_idx # sym[n].ver_idx =>
      /\ ctx.arg.shared
      /\ \E file \in VerFiles :
           \E i \in DOMAIN objs[file] :
             /\ BaseName(objs[file][i]) = n
             /\ OwnsVersioned(file, i)
             /\ \E k \in DOMAIN ctx.arg.version_definitions :
                  ctx.arg.version_definitions[k] = SuffixVersion(file, i).ver

\* C29: parse_symbol_version changes symbols only when the output is a
\* shared object.  A symbol that the file owns and whose name has a suffix
\* naming the i-th version definition gets the ver_idx
\* i + VER_NDX_LAST_RESERVED + 1, with the bit VERSYM_HIDDEN set exactly
\* when the suffix is @ver and clear when it is @@ver; when the suffix
\* names no version definition an error is reported and the ver_idx is left
\* as it was; without -shared no ver_idx changes.
C29_VersionSuffixSetsVerIdx ==
  []VersionsParsed /\ [][VerIdxChangesOnlyIfNamed]_vars

\* With -shared and the definitions V1, V2: a.o owns f, named f@V1, and
\* b.o owns g, named g@@V2, while the f@ of b.o is not b.o's symbol; f is
\* hidden in the first version and g is the default of the second.
C29_Witness ==
  /\ pc = "parsed" /\ ctx.arg.shared
  /\ ctx.arg.version_definitions = <<V1, V2>>
  /\ objs["a.o"][1] = <<"f", "@", "V", "1">>
  /\ objs["b.o"][1] = <<"f", "@">>
  /\ objs["b.o"][2] = <<"g", "@", "@", "V", "2">>
  /\ sym[<<"f">>].file = "a.o" /\ sym[<<"g">>].file = "b.o"
  /\ sym[<<"f">>].ver_idx = VERSYM_HIDDEN + 2
  /\ sym[<<"g">>].ver_idx = 3
  /\ errors = {}

(***************************************************************************)
(* resolve_symbols: the worklist of the live shared objects, one atomic    *)
(* exchange at a step                                                      *)
(*                                                                         *)
(* sym[file] is file->globals, each global given by its sym->file (0 when  *)
(* it is null); todo is live_dsos; feed.tasks counts the items of the      *)
(* worklist by file and by the number of globals already visited, and      *)
(* feed.added counts the calls of feeder.add.                              *)
(***************************************************************************)

DsoSeq == [i \in 1..NumDsos |-> 4 + i]

Succ(file) == IF file + 1 \in Dsos THEN file + 1 ELSE 5

Pred(file) == IF file - 1 \in Dsos THEN file - 1 ELSE 4 + NumDsos

\* The globals of a shared object: resolved in the next or in the previous
\* shared object of the command line, in the file itself, in a regular
\* object, or nowhere.
GlobalsOf(file) ==
  {<<>>, <<Succ(file), Pred(file)>>, <<file, Succ(file)>>,
   <<1, Pred(file)>>, <<0, Succ(file)>>}

TaskIds == Dsos \X (0..2)

NoTasks == [t \in TaskIds |-> 0]

InitMark ==
  /\ pc = "mark_dsos"
  /\ dsos = DsoSeq
  /\ sym \in [Dsos -> UNION {GlobalsOf(file) : file \in Dsos}]
  /\ \A file \in Dsos : sym[file] \in GlobalsOf(file)
  /\ is_alive \in [Files -> BOOLEAN]
  /\ \A f \in ObjFiles : is_alive[f]
  /\ todo = {file \in Dsos : is_alive[file]}
  /\ feed = [tasks |-> [t \in TaskIds |->
                          IF t[1] \in todo /\ t[2] = 0 THEN 1 ELSE 0],
             added |-> 0]
  /\ elf_syms = <<>> /\ arg_undefined = <<>> /\ arg_require_defined = <<>>
  /\ objs = <<>>
  /\ IdleComdat /\ IdleSizes /\ IdleLayout /\ IdleRank /\ IdleDynamic
  /\ IdleMore

not_mark == <<elf_syms, arg_undefined, arg_require_defined, objs, dsos, sym,
              todo, not_resolve>>

FeedsAlways(old) == TRUE

\* passes.cc 150-151: the item is fed when the exchange returned false
Feeds(old) == ~old

\* passes.cc 148-151: the task of an item visits its next global
VisitGlobal(file, pos) ==
  /\ pc = "mark_dsos"
  /\ feed.tasks[<<file, pos>>] > 0
  /\ pos < Len(sym[file])
  /\ LET g == sym[file][pos + 1]
         exchanges == g # 0 /\ g # file /\ is_dso(g)
         fed == exchanges /\ Feeds(is_alive[g])
         moved == [feed.tasks EXCEPT ![<<file, pos>>] = @ - 1,
                                     ![<<file, pos + 1>>] = @ + 1]
     IN /\ is_alive' = IF exchanges THEN [is_alive EXCEPT ![g] = TRUE]
                       ELSE is_alive
        /\ feed' = IF fed
                   THEN [tasks |-> [moved EXCEPT ![<<file, 0>>] = @ + 1],
                         added |-> feed.added + 1]
                   ELSE [feed EXCEPT !.tasks = moved]
  /\ UNCHANGED pc
  /\ UNCHANGED not_mark

\* passes.cc 152: the task has visited every global of the file
FinishItem(file) ==
  /\ pc = "mark_dsos"
  /\ feed.tasks[<<file, Len(sym[file])>>] > 0
  /\ feed' = [feed EXCEPT !.tasks[<<file, Len(sym[file])>>] = @ - 1]
  /\ UNCHANGED <<pc, is_alive>>
  /\ UNCHANGED not_mark

\* passes.cc 152: parallel_for_each returns when no item is left
JoinItems ==
  /\ pc = "mark_dsos"
  /\ feed.tasks = NoTasks
  /\ pc' = "sweep_dsos"
  /\ UNCHANGED <<is_alive, feed>>
  /\ UNCHANGED not_mark

NextMark ==
  \/ \E file \in Dsos, pos \in 0..1 : VisitGlobal(file, pos)
  \/ \E file \in Dsos : FinishItem(file)
  \/ JoinItems

SpecMark == InitMark /\ [][NextMark]_vars

\* The tasks of parallel_for_each are run until none is left.
SpecMarkFair == SpecMark /\ WF_vars(NextMark)

\* The shared objects whose is_alive went from false to true.
Flipped == {file \in Dsos : is_alive[file] /\ file \notin todo}

\* C30: the worklist of the live shared objects drains, also when shared
\* objects reference each other in a cycle: the number of items ever fed is
\* at most the number of shared objects whose is_alive went from false to
\* true, whatever the interleaving of the tasks.
C30_DsoWorklistTerminates ==
  /\ [](feed.added <= Cardinality(Flipped))
  /\ <>(pc = "sweep_dsos")

\* Only the first shared object is alive at the start and the shared
\* objects reference each other in a ring and back: the worklist has
\* drained, the two neighbours of the first are alive and two items were
\* fed.
C30_Witness ==
  /\ pc = "sweep_dsos"
  /\ todo = {5}
  /\ \A file \in Dsos : sym[file] = <<Succ(file), Pred(file)>>
  /\ is_alive[Succ(5)] /\ is_alive[Pred(5)]
  /\ feed.added = 2

====
